---- MODULE Spec2Model ----
(***************************************************************************)
(* Model of the incremental spatial scanner of minecraft-utils             *)
(* (packages/minecraft-utils/src/math/BFSScanner.ts): the chunked height   *)
(* cache ScanResult, its random sampler, and the generator BFSScanner.scan.*)
(* Every integer of the model is a 32-bit integer of the checker, which is *)
(* the width of the Int32Array cells and of the operands of >>, << and &.  *)
(***************************************************************************)
EXTENDS Integers, Sequences, FiniteSets, TLC

(***************************************************************************)
(* Program constants of ScanResult.                                        *)
(***************************************************************************)
CHUNK_SIZE == 16
CHUNK_MASK == 15
CHUNK_SHIFT == 4
SENTINEL == -2147483647 - 1
CELL_SIZE == 8
CELL_SHIFT == 3

(***************************************************************************)
(* JavaScript values and operators used by the code.                       *)
(***************************************************************************)
\* undefined / a defined value v, for results and optional parameters
Undefined == {}
Some(v) == {v}
TheValue(o) == CHOOSE v \in o : TRUE

RECURSIVE Pow2(_)
Pow2(k) == IF k = 0 THEN 1 ELSE 2 * Pow2(k - 1)

\* a >> k on a 32-bit integer: arithmetic shift, i.e. floor(a / 2^k)
Shr(a, k) == a \div Pow2(k)
\* a << k on a 32-bit integer: the bits shifted past bit 31 are lost and bit 31
\* is the sign
Shl(a, k) ==
    LET m == Pow2(32 - k)
        r == a % m
    IN IF r >= m \div 2 THEN (r - m) * Pow2(k) ELSE r * Pow2(k)
\* a & mask for a mask 2^k - 1: the k low bits of the two's complement of a
AndMask(a, mask) == a % (mask + 1)
\* a | b for operands with no common bit (b < 2^k, the k low bits of a are 0)
BitOr(a, b) == a + b
Abs(a) == IF a < 0 THEN -a ELSE a

\* strings are sequences of one-character strings
DigitChars == <<"0", "1", "2", "3", "4", "5", "6", "7", "8", "9">>

RECURSIVE NatToString(_)
NatToString(n) ==
    IF n < 10 THEN <<DigitChars[n + 1]>>
    ELSE NatToString(n \div 10) \o <<DigitChars[(n % 10) + 1]>>

\* `${n}` for an integer n
NumberToString(n) == IF n < 0 THEN <<"-">> \o NatToString(-n) ELSE NatToString(n)

\* str.split(","): the pieces between the commas
RECURSIVE SplitComma(_)
SplitComma(s) ==
    IF \A i \in 1..Len(s) : s[i] # ","
    THEN <<s>>
    ELSE LET i == CHOOSE j \in 1..Len(s) : s[j] = "," /\ \A k \in 1..(j - 1) : s[k] # ","
         IN <<SubSeq(s, 1, i - 1)>> \o SplitComma(SubSeq(s, i + 1, Len(s)))

DigitValue(c) == CHOOSE d \in 0..9 : DigitChars[d + 1] = c
IsDigit(c) == \E d \in 0..9 : DigitChars[d + 1] = c

RECURSIVE ParseDigits(_, _)
ParseDigits(s, acc) ==
    IF s = <<>> \/ ~IsDigit(Head(s)) THEN acc
    ELSE ParseDigits(Tail(s), 10 * acc + DigitValue(Head(s)))

\* parseInt(s) for the strings the code parses (an optional sign, then digits)
parseInt(s) ==
    IF s # <<>> /\ Head(s) = "-" THEN -ParseDigits(Tail(s), 0) ELSE ParseDigits(s, 0)

(***************************************************************************)
(* Variables.                                                              *)
(***************************************************************************)
VARIABLES
    chunks,       \* ScanResult.chunks: chunk key -> Int32Array(256)
    written,      \* history: the <<cellX, cellZ, y>> passed to updateHeight since
                  \* construction or the last clear()
    lastOp,       \* history: the last ScanResult call of the caller
    smp,          \* the frame of a getRandomPosition call; where two scan computations
                  \* are interleaved, the one that is not running
    globalScanResults, \* BFSScanner.globalScanResults: dimension id -> ScanResult reference
    heap,         \* the ScanResult objects reached through globalScanResults, by reference
    world,        \* the host: what dimension.getBlock and blockFilter do at a block
    config,       \* the ScanConfig the caller scans with
    gen,          \* the frame of the generator returned by BFSScanner.scan
    tempPos,      \* BFSScanner.tempPos, the scanner's reusable vector
    cache0,       \* history: chunks when the current invocation started
    probes,       \* history: the slab probes of the current invocation
    sinceSuspend, \* history: points dequeued since the start or the last suspension
    runs,         \* history: the latest invocations, oldest first
    dynamicProperties, \* the host: the dynamic properties of the world, name -> string
    _namespace,   \* config.ts: the module variable _namespace
    manager,      \* the DatabaseManager a caller constructed: its fields
    simple,       \* the SimpleDatabase a caller constructed: its fields
    machine,      \* the StateMachine: the active level of its branch, the PlayerDatabase
                  \* and PlayerManager.players
    events        \* history: the level events triggered since the active level changed

vars ==
    <<chunks, written, lastOp, smp, globalScanResults, heap, world, config, gen, tempPos, cache0,
      probes, sinceSuspend, runs, dynamicProperties, _namespace, manager, simple, machine,
      events>>

\* the variables of the database package and of the state machine, which keeps its
\* players in a database
dbVars == <<dynamicProperties, _namespace, manager, simple, machine, events>>

\* no StateMachine instance
NoMachine == [constructed |-> FALSE]
NoEvents == [log |-> <<>>]

\* a world without dynamic properties
NoProperties == [name \in {} |-> <<>>]

\* let _namespace: string = "starktma"
DefaultNamespace == <<"s", "t", "a", "r", "k", "t", "m", "a">>

\* no DatabaseManager and no SimpleDatabase constructed
NoManager == [constructed |-> FALSE]
NoDatabase == [constructed |-> FALSE]

\* the database package after the modules are loaded
DatabaseIdle ==
    /\ dynamicProperties = NoProperties
    /\ _namespace = DefaultNamespace
    /\ manager = NoManager
    /\ simple = NoDatabase
    /\ machine = NoMachine
    /\ events = NoEvents

(***************************************************************************)
(* ScanResult.                                                             *)
(***************************************************************************)
\* a mutant of NewChunk: the array is not filled with the sentinel
NewChunkZeroed == [i \in 0..(CHUNK_SIZE * CHUNK_SIZE - 1) |-> 0]

\* new Int32Array(CHUNK_SIZE * CHUNK_SIZE).fill(SENTINEL)
NewChunk == [i \in 0..(CHUNK_SIZE * CHUNK_SIZE - 1) |-> SENTINEL]

\* `${chunkX},${chunkZ}`
ChunkKey(chunkX, chunkZ) == NumberToString(chunkX) \o <<",">> \o NumberToString(chunkZ)

\* the key of the chunk holding world coordinates (x, z)
KeyOf(x, z) ==
    ChunkKey(Shr(Shr(x, CELL_SHIFT), CHUNK_SHIFT), Shr(Shr(z, CELL_SHIFT), CHUNK_SHIFT))

\* a mutant of IndexOf: localZ is not shifted
IndexOfNoShift(x, z) ==
    AndMask(Shr(z, CELL_SHIFT), CHUNK_MASK) + AndMask(Shr(x, CELL_SHIFT), CHUNK_MASK)

\* the index of the cell of world coordinates (x, z) within its chunk
IndexOf(x, z) ==
    LET localX == AndMask(Shr(x, CELL_SHIFT), CHUNK_MASK)
        localZ == AndMask(Shr(z, CELL_SHIFT), CHUNK_MASK)
    IN BitOr(Shl(localZ, CHUNK_SHIFT), localX)

\* a mutant of updateHeight: the write is unconditional
updateHeightAlways(ch, x, z, y) ==
    LET key == KeyOf(x, z)
        chunk == IF key \in DOMAIN ch THEN ch[key] ELSE NewChunk
    IN [k \in (DOMAIN ch) \cup {key} |->
            IF k = key THEN [chunk EXCEPT ![IndexOf(x, z)] = y] ELSE ch[k]]

\* ScanResult.updateHeight(x, z, y) on the chunk map ch: the chunk map after it
updateHeight(ch, x, z, y) ==
    LET key == KeyOf(x, z)
        chunk == IF key \in DOMAIN ch THEN ch[key] ELSE NewChunk
        index == IndexOf(x, z)
        chunk2 == IF y > chunk[index] THEN [chunk EXCEPT ![index] = y] ELSE chunk
    IN [k \in (DOMAIN ch) \cup {key} |-> IF k = key THEN chunk2 ELSE ch[k]]

\* a mutant of getHeight: the stored value is tested for truthiness, so 0 is unknown
getHeightFalsy(ch, x, z) ==
    LET key == KeyOf(x, z)
    IN IF key \notin DOMAIN ch THEN Undefined
       ELSE LET val == ch[key][IndexOf(x, z)]
            IN IF val = SENTINEL \/ val = 0 THEN Undefined ELSE Some(val)

\* ScanResult.getHeight(x, z): Undefined or Some(height)
getHeight(ch, x, z) ==
    LET key == KeyOf(x, z)
    IN IF key \notin DOMAIN ch THEN Undefined
       ELSE LET val == ch[key][IndexOf(x, z)]
            IN IF val = SENTINEL THEN Undefined ELSE Some(val)

\* ScanResult.hasHeight(x, z)
hasHeight(ch, x, z) == getHeight(ch, x, z) # Undefined

\* new Map(): no chunk
NoChunks == [k \in {} |-> NewChunk]

\* ScanResult.clear()
clear(ch) == NoChunks

\* the cells of ch with a recorded height, as <<x, z>> of the cell's first block
KnownCells(ch) ==
    { <<Shl(Shl(parseInt(SplitComma(k)[1]), CHUNK_SHIFT) + AndMask(i, CHUNK_MASK), CELL_SHIFT),
        Shl(Shl(parseInt(SplitComma(k)[2]), CHUNK_SHIFT) + Shr(i, CHUNK_SHIFT), CELL_SHIFT)>> :
        <<k, i>> \in { ki \in (DOMAIN ch) \X (0..(CHUNK_SIZE * CHUNK_SIZE - 1)) :
                          ch[ki[1]][ki[2]] # SENTINEL } }

(***************************************************************************)
(* The host world: dimension.getBlock(pos) and config.blockFilter(block).  *)
(* world maps the blocks that are not plain valid blocks to what happens   *)
(* there: "invalid" (blockFilter returns false), "none" (getBlock returns  *)
(* undefined) or "throws" (getBlock or blockFilter throws).                *)
(***************************************************************************)
BlockOutcome(w, x, y, z) ==
    IF <<x, y, z>> \in DOMAIN w THEN w[<<x, y, z>>] ELSE "valid"

(***************************************************************************)
(* BFSScanner.                                                             *)
(***************************************************************************)
DEFAULT_MAX_ITERATIONS == 10000
DEFAULT_YIELD_INTERVAL == 100
INITIAL_QUEUE_CAPACITY == 3000

\* BFSScanner.directions
directions ==
    << [x |-> CELL_SIZE, y |-> 0, z |-> 0], [x |-> -CELL_SIZE, y |-> 0, z |-> 0],
       [x |-> 0, y |-> 0, z |-> CELL_SIZE], [x |-> 0, y |-> 0, z |-> -CELL_SIZE] >>

\* a destructuring default: `name = dflt`
OrDefault(opt, dflt) == IF opt = Undefined THEN dflt ELSE TheValue(opt)

\* a mutant of isWithinShape: the boundary of the shape is excluded
isWithinShapeStrict(x, y, z, center, shape, dims, rSq) ==
    LET dx == x - center.x
        dy == y - center.y
        dz == z - center.z
    IN CASE shape = "cube" ->
              Abs(dx) < dims.x /\ Abs(dy) <= dims.y /\ Abs(dz) < dims.z
         [] shape = "sphere" -> dx * dx + dy * dy + dz * dz < rSq
         [] shape = "cylinder" -> dx * dx + dz * dz < rSq /\ Abs(dy) <= dims.y
         [] OTHER -> FALSE

\* BFSScanner.isWithinShape
isWithinShape(x, y, z, center, shape, dims, rSq) ==
    LET dx == x - center.x
        dy == y - center.y
        dz == z - center.z
    IN CASE shape = "cube" ->
              Abs(dx) <= dims.x /\ Abs(dy) <= dims.y /\ Abs(dz) <= dims.z
         [] shape = "sphere" -> dx * dx + dy * dy + dz * dz <= rSq
         [] shape = "cylinder" -> dx * dx + dz * dz <= rSq /\ Abs(dy) <= dims.y
         [] OTHER -> FALSE

\* the key of the visited map: (cellX & 0xffff) | ((cellZ & 0xffff) << 16)
VisitedKey(x, z) ==
    BitOr(Shl(AndMask(Shr(z, 3), 65535), 16), AndMask(Shr(x, 3), 65535))

\* markVisited(x, y, z) on the visited map v
markVisited(v, x, y, z) ==
    LET key == VisitedKey(x, z)
        ySet == IF key \in DOMAIN v THEN v[key] ELSE {}
    IN [k \in (DOMAIN v) \cup {key} |-> IF k = key THEN ySet \cup {y} ELSE v[k]]

\* isVisited(x, y, z)
isVisited(v, x, y, z) ==
    LET key == VisitedKey(x, z)
    IN IF key \in DOMAIN v THEN y \in v[key] ELSE FALSE

\* a mutant of pushToQueue: the point is put in front of the pending points (a stack)
pushToQueueFront(f, x, y, z) ==
    [f EXCEPT !.queueCapacity = IF f.qTail + 3 >= @ THEN @ * 2 ELSE @,
              !.queue = SubSeq(@, 1, f.qHead) \o <<x, y, z>> \o SubSeq(@, f.qHead + 1, f.qTail),
              !.qTail = @ + 3]

\* pushToQueue(x, y, z) on the frame f: queue holds the qTail written entries of
\* the Int32Array, whose other entries are 0
pushToQueue(f, x, y, z) ==
    [f EXCEPT !.queueCapacity = IF f.qTail + 3 >= @ THEN @ * 2 ELSE @,
              !.queue = @ \o <<x, y, z>>,
              !.qTail = @ + 3]

\* the 8x8 loop of the try block of scan: the index (dx-major) of the first query
\* whose outcome is not in passing, or 64 when there is none
FirstFailure(w, cx, cy, cz, passing) ==
    CHOOSE k \in
      { IF bad = {} THEN CELL_SIZE * CELL_SIZE ELSE CHOOSE i \in bad : \A j \in bad : i <= j :
          bad \in { { i \in 0..(CELL_SIZE * CELL_SIZE - 1) :
                        BlockOutcome(w, cx + (i \div CELL_SIZE), cy, cz + (i % CELL_SIZE))
                          \notin passing } } } : TRUE

\* a mutant of ProbeSlab: a query that returns no block does not fail the slab
ProbeSlabIgnoreMissing(w, cx, cy, cz) ==
    LET n == CELL_SIZE * CELL_SIZE
    IN CHOOSE r \in
         { [isValid |-> k = n, queries |-> IF k = n THEN n ELSE k + 1,
            dx |-> (IF k = n THEN n - 1 ELSE k) \div CELL_SIZE,
            dz |-> (IF k = n THEN n - 1 ELSE k) % CELL_SIZE] :
             k \in { FirstFailure(w, cx, cy, cz, {"valid", "none"}) } } : TRUE

\* the try block of scan: the 8x8 slab at (cx, cy, cz) is queried dx-major until a
\* block fails; queries is the number of getBlock calls, dx and dz the offsets of the
\* last one
ProbeSlab(w, cx, cy, cz) ==
    LET n == CELL_SIZE * CELL_SIZE
    IN CHOOSE r \in
         { [isValid |-> k = n, queries |-> IF k = n THEN n ELSE k + 1,
            dx |-> (IF k = n THEN n - 1 ELSE k) \div CELL_SIZE,
            dz |-> (IF k = n THEN n - 1 ELSE k) % CELL_SIZE] :
             k \in { FirstFailure(w, cx, cy, cz, {"valid"}) } } : TRUE

\* a mutant of QueryTargets: tempPos.y is not assigned before the slab is queried
QueryTargetsStaleY(tp, cx, cy, cz, queries) ==
    LET t0 == [tp EXCEPT !.x = cx, !.z = cz]
    IN [i \in 1..queries |->
          [t0 EXCEPT !.x = cx + ((i - 1) \div CELL_SIZE), !.z = cz + ((i - 1) % CELL_SIZE)]]

\* the positions passed to dimension.getBlock by the 8x8 loop at (cx, cy, cz), in
\* order: tempPos (tp when the pass starts) is assigned cx, cy, cz, then x and z are
\* assigned before each of the queries made
QueryTargets(tp, cx, cy, cz, queries) ==
    LET t0 == [tp EXCEPT !.x = cx, !.y = cy, !.z = cz]
    IN [i \in 1..queries |->
          [t0 EXCEPT !.x = cx + ((i - 1) \div CELL_SIZE), !.z = cz + ((i - 1) % CELL_SIZE)]]

\* a mutant of ExpandNeighbors: a neighbour is enqueued whether or not it is visited
RECURSIVE ExpandNeighborsRevisit(_, _, _, _, _)
ExpandNeighborsRevisit(f, cx, cy, cz, i) ==
    IF i > Len(directions) THEN f
    ELSE LET nx == cx + directions[i].x
             ny == cy + directions[i].y
             nz == cz + directions[i].z
         IN IF ~isWithinShape(nx, ny, nz, f.center, f.shape, f.geometryDimensions, f.rSq)
            THEN ExpandNeighborsRevisit(f, cx, cy, cz, i + 1)
            ELSE CHOOSE r \in
                   { ExpandNeighborsRevisit(g, cx, cy, cz, i + 1) :
                       g \in { pushToQueue([f EXCEPT !.visitedXZ = markVisited(@, nx, ny, nz)],
                                            nx, ny, nz) } } : TRUE

\* the neighbour loop of scan from direction i on, on the frame f (the frame after
\* a push is bound as a value g before the loop goes on)
RECURSIVE ExpandNeighbors(_, _, _, _, _)
ExpandNeighbors(f, cx, cy, cz, i) ==
    IF i > Len(directions) THEN f
    ELSE LET nx == cx + directions[i].x
             ny == cy + directions[i].y
             nz == cz + directions[i].z
         IN IF ~isWithinShape(nx, ny, nz, f.center, f.shape, f.geometryDimensions, f.rSq)
            THEN ExpandNeighbors(f, cx, cy, cz, i + 1)
            ELSE IF isVisited(f.visitedXZ, nx, ny, nz)
            THEN ExpandNeighbors(f, cx, cy, cz, i + 1)
            ELSE CHOOSE r \in
                   { ExpandNeighbors(g, cx, cy, cz, i + 1) :
                       g \in { pushToQueue([f EXCEPT !.visitedXZ = markVisited(@, nx, ny, nz)],
                                            nx, ny, nz) } } : TRUE

\* the frame of a generator that does not exist
NoFrame == [pc |-> "idle"]

\* a mutant of StartFrame: the seed is the center itself, not snapped to the grid
StartFrameUnaligned(c) ==
    LET f0 == [pc |-> "loop",
               center |-> c.center, shape |-> c.shape,
               geometryDimensions |-> c.geometryDimensions,
               maxIterations |-> OrDefault(c.maxIterations, DEFAULT_MAX_ITERATIONS),
               forceRescan |-> OrDefault(c.forceRescan, FALSE),
               yieldInterval |-> OrDefault(c.yieldInterval, DEFAULT_YIELD_INTERVAL),
               queueCapacity |-> INITIAL_QUEUE_CAPACITY, queue |-> <<>>, qHead |-> 0, qTail |-> 0,
               visitedXZ |-> [k \in {} |-> {}],
               rSq |-> c.geometryDimensions.x * c.geometryDimensions.x,
               iterations |-> 0, processedSinceYield |-> 0]
        f1 == pushToQueue(f0, c.center.x, c.center.y, c.center.z)
    IN [f1 EXCEPT !.visitedXZ = markVisited(@, c.center.x, c.center.y, c.center.z)]

\* the start of scan up to the loop: defaults, queue, seed, visited map
StartFrame(c) ==
    LET startX == (c.center.x \div CELL_SIZE) * CELL_SIZE
        startY == c.center.y
        startZ == (c.center.z \div CELL_SIZE) * CELL_SIZE
        f0 == [pc |-> "loop",
               center |-> c.center, shape |-> c.shape,
               geometryDimensions |-> c.geometryDimensions,
               maxIterations |-> OrDefault(c.maxIterations, DEFAULT_MAX_ITERATIONS),
               forceRescan |-> OrDefault(c.forceRescan, FALSE),
               yieldInterval |-> OrDefault(c.yieldInterval, DEFAULT_YIELD_INTERVAL),
               queueCapacity |-> INITIAL_QUEUE_CAPACITY, queue |-> <<>>, qHead |-> 0, qTail |-> 0,
               visitedXZ |-> [k \in {} |-> {}],
               rSq |-> c.geometryDimensions.x * c.geometryDimensions.x,
               iterations |-> 0, processedSinceYield |-> 0]
        f1 == pushToQueue(f0, startX, startY, startZ)
    IN [f1 EXCEPT !.visitedXZ = markVisited(@, startX, startY, startZ)]

\* a mutant of LoopBody: the cached fast path does not expand the neighbours
LoopBodyNoExpandCached(f, ch, tp, w) ==
    LET cx == f.queue[f.qHead + 1]
        cy == f.queue[f.qHead + 2]
        cz == f.queue[f.qHead + 3]
        f1 == [f EXCEPT !.qHead = @ + 3]
        alreadyScanned == hasHeight(ch, cx, cz)
        probe == ProbeSlab(w, cx, cy, cz)
    IN IF alreadyScanned /\ ~f.forceRescan
       THEN [frame |-> f1, chunks |-> ch, tempPos |-> tp, probes |-> {}]
       ELSE IF ~isWithinShape(cx, cy, cz, f.center, f.shape, f.geometryDimensions, f.rSq)
       THEN [frame |-> f1, chunks |-> ch, tempPos |-> [x |-> cx, y |-> cy, z |-> cz],
             probes |-> {}]
       ELSE [frame |-> IF probe.isValid THEN ExpandNeighbors(f1, cx, cy, cz, 1) ELSE f1,
             chunks |-> IF probe.isValid THEN updateHeight(ch, cx, cz, cy) ELSE ch,
             tempPos |-> [x |-> cx + probe.dx, y |-> cy, z |-> cz + probe.dz],
             probes |-> {[x |-> cx, y |-> cy, z |-> cz, cached |-> alreadyScanned,
                          queries |-> probe.queries, isValid |-> probe.isValid]}]

\* a mutant of LoopBody: the neighbours are expanded whether or not the slab is valid
LoopBodyExpandInvalid(f, ch, tp, w) ==
    LET cx == f.queue[f.qHead + 1]
        cy == f.queue[f.qHead + 2]
        cz == f.queue[f.qHead + 3]
        f1 == [f EXCEPT !.qHead = @ + 3]
        alreadyScanned == hasHeight(ch, cx, cz)
        probe == ProbeSlab(w, cx, cy, cz)
    IN IF alreadyScanned /\ ~f.forceRescan
       THEN [frame |-> ExpandNeighbors(f1, cx, cy, cz, 1), chunks |-> ch, tempPos |-> tp,
             probes |-> {}]
       ELSE IF ~isWithinShape(cx, cy, cz, f.center, f.shape, f.geometryDimensions, f.rSq)
       THEN [frame |-> f1, chunks |-> ch, tempPos |-> [x |-> cx, y |-> cy, z |-> cz],
             probes |-> {}]
       ELSE [frame |-> ExpandNeighbors(f1, cx, cy, cz, 1),
             chunks |-> IF probe.isValid THEN updateHeight(ch, cx, cz, cy) ELSE ch,
             tempPos |-> [x |-> cx + probe.dx, y |-> cy, z |-> cz + probe.dz],
             probes |-> {[x |-> cx, y |-> cy, z |-> cz, cached |-> alreadyScanned,
                          queries |-> probe.queries, isValid |-> probe.isValid]}]

\* a mutant of LoopBody: the cached fast path is missing, every dequeued point is
\* checked and probed
LoopBodyNoFastPath(f, ch, tp, w) ==
    LET cx == f.queue[f.qHead + 1]
        cy == f.queue[f.qHead + 2]
        cz == f.queue[f.qHead + 3]
        f1 == [f EXCEPT !.qHead = @ + 3]
        probe == ProbeSlab(w, cx, cy, cz)
    IN IF ~isWithinShape(cx, cy, cz, f.center, f.shape, f.geometryDimensions, f.rSq)
       THEN [frame |-> f1, chunks |-> ch, tempPos |-> [x |-> cx, y |-> cy, z |-> cz],
             probes |-> {}]
       ELSE [frame |-> IF probe.isValid THEN ExpandNeighbors(f1, cx, cy, cz, 1) ELSE f1,
             chunks |-> IF probe.isValid THEN updateHeight(ch, cx, cz, cy) ELSE ch,
             tempPos |-> [x |-> cx + probe.dx, y |-> cy, z |-> cz + probe.dz],
             probes |-> {[x |-> cx, y |-> cy, z |-> cz, cached |-> hasHeight(ch, cx, cz),
                          queries |-> probe.queries, isValid |-> probe.isValid]}]

\* a mutant of LoopBody: the dequeued point is probed without the shape check
LoopBodyNoShapeCheck(f, ch, tp, w) ==
    LET cx == f.queue[f.qHead + 1]
        cy == f.queue[f.qHead + 2]
        cz == f.queue[f.qHead + 3]
        f1 == [f EXCEPT !.qHead = @ + 3]
        alreadyScanned == hasHeight(ch, cx, cz)
        probe == ProbeSlab(w, cx, cy, cz)
    IN IF alreadyScanned /\ ~f.forceRescan
       THEN [frame |-> ExpandNeighbors(f1, cx, cy, cz, 1), chunks |-> ch, tempPos |-> tp,
             probes |-> {}]
       ELSE [frame |-> IF probe.isValid THEN ExpandNeighbors(f1, cx, cy, cz, 1) ELSE f1,
             chunks |-> IF probe.isValid THEN updateHeight(ch, cx, cz, cy) ELSE ch,
             tempPos |-> [x |-> cx + probe.dx, y |-> cy, z |-> cz + probe.dz],
             probes |-> {[x |-> cx, y |-> cy, z |-> cz, cached |-> alreadyScanned,
                          queries |-> probe.queries, isValid |-> probe.isValid]}]

\* one loop body from the dequeue on (after the ceiling and cadence checks):
\* the frame, the chunk map, tempPos and the probe made, if any
LoopBody(f, ch, tp, w) ==
    LET cx == f.queue[f.qHead + 1]
        cy == f.queue[f.qHead + 2]
        cz == f.queue[f.qHead + 3]
        f1 == [f EXCEPT !.qHead = @ + 3]
        alreadyScanned == hasHeight(ch, cx, cz)
        inShape == isWithinShape(cx, cy, cz, f.center, f.shape, f.geometryDimensions, f.rSq)
        probe == ProbeSlab(w, cx, cy, cz)
    IN IF alreadyScanned /\ ~f.forceRescan
       THEN [frame |-> ExpandNeighbors(f1, cx, cy, cz, 1), chunks |-> ch, tempPos |-> tp,
             probes |-> {}]
       ELSE IF ~inShape
       THEN [frame |-> f1, chunks |-> ch, tempPos |-> [x |-> cx, y |-> cy, z |-> cz],
             probes |-> {}]
       ELSE [frame |-> IF probe.isValid THEN ExpandNeighbors(f1, cx, cy, cz, 1) ELSE f1,
             chunks |-> IF probe.isValid THEN updateHeight(ch, cx, cz, cy) ELSE ch,
             tempPos |-> QueryTargets(tp, cx, cy, cz, probe.queries)[probe.queries],
             probes |-> {[x |-> cx, y |-> cy, z |-> cz, cached |-> alreadyScanned,
                          queries |-> probe.queries, isValid |-> probe.isValid]}]

(***************************************************************************)
(* Bounds and inputs of the scan specification.                            *)
(***************************************************************************)
MaxInvocations == 2     \* the latest invocations that the history runs keeps
MaxCeiling == 2         \* explicit maxIterations are 0..MaxCeiling
MaxYield == 1           \* explicit yieldInterval are 0..MaxYield

Vec(x, y, z) == [x |-> x, y |-> y, z |-> z]

Origin == Vec(0, 0, 0)
OffGrid == Vec(5, 2, -3)
Centers == {Origin, OffGrid}

\* shape tags with their geometryDimensions; "pyramid" is no ScanShape
Geometries ==
    { [shape |-> "cube", geometryDimensions |-> Vec(8, 0, 8)],
      [shape |-> "sphere", geometryDimensions |-> Vec(16, 0, 0)],
      [shape |-> "cylinder", geometryDimensions |-> Vec(8, 1, 0)],
      [shape |-> "pyramid", geometryDimensions |-> Vec(8, 8, 8)] }

\* a cube that holds no corner of the cell of a center at (7, 0, 0), and the corner of
\* the next cell
SmallCube == [shape |-> "cube", geometryDimensions |-> Vec(2, 0, 2)]

\* the y levels of the seeds
Levels == { c.y : c \in Centers }

\* a world from a set of <<x, z, outcome>>, the same at every level
WorldOf(bad) ==
    [b \in { <<t[1], y, t[2]>> : t \in bad, y \in Levels } |->
        (CHOOSE t \in bad : t[1] = b[1] /\ t[2] = b[3])[3]]

AllValid == WorldOf({})
Worlds ==
    { AllValid,
      WorldOf({<<9, 2, "invalid">>}),
      WorldOf({<<-1, 7, "throws">>, <<0, 8, "none">>}),
      WorldOf({<<0, 0, "invalid">>, <<7, -1, "throws">>}) }

\* a chunk map from a sequence of <<x, z, y>> written with updateHeight
RECURSIVE CacheOf(_)
CacheOf(ws) ==
    IF ws = <<>> THEN NoChunks
    ELSE updateHeight(CacheOf(SubSeq(ws, 1, Len(ws) - 1)),
                      ws[Len(ws)][1], ws[Len(ws)][2], ws[Len(ws)][3])

InitialCaches ==
    { NoChunks,
      CacheOf(<< <<0, 0, 5>>, <<8, 0, -3>>, <<0, -8, 1>> >>),
      CacheOf(<< <<-8, 0, 0>>, <<24, 0, 7>> >>) }

OptionalCeilings == {Undefined} \cup { Some(m) : m \in 0..MaxCeiling }
OptionalYields == {Undefined} \cup { Some(m) : m \in 0..MaxYield }
OptionalForce == {Undefined, Some(TRUE)}

\* the configurations scanned: every geometry at both centers in the all-valid
\* world, the cube and the sphere at the origin in every world with every cadence,
\* and a cube whose seed is outside the shape
Scenarios ==
    { [center |-> c, geometry |-> g, world |-> AllValid, yieldInterval |-> Undefined] :
        c \in Centers, g \in Geometries }
    \cup
    { [center |-> Origin, geometry |-> g, world |-> w, yieldInterval |-> yi] :
        g \in { h \in Geometries : h.shape \in {"cube", "sphere"} },
        w \in Worlds, yi \in OptionalYields }
    \cup
    { [center |-> Vec(7, 0, 0), geometry |-> SmallCube, world |-> AllValid,
       yieldInterval |-> Undefined] }

NoConfig == [shape |-> "none"]
NoOp == [op |-> "none"]
NoCall == [pc |-> "idle"]

\* new Map() of globalScanResults, and no ScanResult object
NoResults == [d \in {} |-> 0]
NoObjects == [r \in {} |-> NoChunks]

(***************************************************************************)
(* The scan specification: a caller invokes scan on the ScanResult and     *)
(* resumes the generator until it returns, then may invoke it again with   *)
(* the same ScanResult as existingResult.                                  *)
(***************************************************************************)
Init ==
    /\ chunks \in InitialCaches
    /\ written = {}
    /\ lastOp = NoOp
    /\ smp = NoCall
    /\ globalScanResults = NoResults
    /\ heap = NoObjects
    /\ DatabaseIdle
    /\ \E s \in Scenarios, fr \in OptionalForce :
         /\ world = s.world
         /\ config = [center |-> s.center, shape |-> s.geometry.shape,
                      geometryDimensions |-> s.geometry.geometryDimensions,
                      maxIterations |-> Undefined, forceRescan |-> fr,
                      yieldInterval |-> s.yieldInterval]
    /\ gen = NoFrame
    /\ tempPos = Vec(0, 0, 0)
    /\ cache0 = chunks
    /\ probes = {}
    /\ sinceSuspend = 0
    /\ runs = <<>>

\* the MaxInvocations latest entries of a history
LastRuns(rs) ==
    IF Len(rs) <= MaxInvocations THEN rs ELSE SubSeq(rs, Len(rs) - MaxInvocations + 1, Len(rs))

\* scanner.scan(dimension, {...config, maxIterations}, result) and the first
\* next() up to the loop; a re-invocation keeps the ceiling or leaves it to the default
ScanStart(maxIterations) ==
    /\ gen.pc \in {"idle", "done"}
    /\ runs # <<>> => maxIterations \in {runs[Len(runs)].maxIterations, Undefined}
    /\ config' = [config EXCEPT !.maxIterations = maxIterations]
    /\ gen' = StartFrame(config')
    /\ cache0' = chunks
    /\ probes' = {}
    /\ sinceSuspend' = 0
    /\ runs' = LastRuns(Append(runs, [maxIterations |-> maxIterations, exit |-> "none",
                                      dequeued |-> 0]))
    /\ UNCHANGED <<chunks, written, lastOp, smp, dbVars, globalScanResults, heap, world, tempPos>>

\* the effects of one loop body on the variables
DoLoopBody(f) ==
    \E r \in {LoopBody(f, chunks, tempPos, world)} :
       /\ gen' = [r.frame EXCEPT !.pc = "loop"]
       /\ chunks' = r.chunks
       /\ tempPos' = r.tempPos
       /\ probes' = probes \cup r.probes
       /\ sinceSuspend' = sinceSuspend + 1
       /\ runs' = [runs EXCEPT ![Len(runs)].dequeued = @ + 1]
       /\ UNCHANGED <<written, lastOp, smp, dbVars, globalScanResults, heap, world, config, cache0>>

\* a loop pass that neither leaves the loop nor yields
ScanIterate ==
    /\ gen.pc = "loop"
    /\ gen.qHead < gen.qTail
    /\ ~(gen.iterations > gen.maxIterations)
    /\ ~(gen.processedSinceYield >= gen.yieldInterval)
    /\ DoLoopBody([gen EXCEPT !.iterations = @ + 1, !.processedSinceYield = @ + 1])

\* a mutant of ScanYield: the generator is suspended after the point was dequeued
ScanYieldMidCell ==
    /\ gen.pc = "loop"
    /\ gen.qHead < gen.qTail
    /\ ~(gen.iterations > gen.maxIterations)
    /\ gen.processedSinceYield >= gen.yieldInterval
    /\ gen' = [gen EXCEPT !.iterations = @ + 1, !.processedSinceYield = 0,
                          !.qHead = @ + 3, !.pc = "suspended"]
    /\ sinceSuspend' = 0
    /\ UNCHANGED <<chunks, written, lastOp, smp, dbVars, globalScanResults, heap, world, config,
                   tempPos, cache0, probes, runs>>

\* a mutant of ScanYield: the pass that yields counts twice against the ceiling
ScanYieldCountedTwice ==
    /\ gen.pc = "loop"
    /\ gen.qHead < gen.qTail
    /\ ~(gen.iterations > gen.maxIterations)
    /\ gen.processedSinceYield >= gen.yieldInterval
    /\ gen' = [gen EXCEPT !.iterations = @ + 2, !.processedSinceYield = 0,
                          !.pc = "suspended"]
    /\ sinceSuspend' = 0
    /\ UNCHANGED <<chunks, written, lastOp, smp, dbVars, globalScanResults, heap, world, config,
                   tempPos, cache0, probes, runs>>

\* a loop pass that reaches the yield: the generator is suspended
ScanYield ==
    /\ gen.pc = "loop"
    /\ gen.qHead < gen.qTail
    /\ ~(gen.iterations > gen.maxIterations)
    /\ gen.processedSinceYield >= gen.yieldInterval
    /\ gen' = [gen EXCEPT !.iterations = @ + 1, !.processedSinceYield = 0,
                          !.pc = "suspended"]
    /\ sinceSuspend' = 0
    /\ UNCHANGED <<chunks, written, lastOp, smp, dbVars, globalScanResults, heap, world, config,
                   tempPos, cache0, probes, runs>>

\* next() on the suspended generator: the rest of the loop pass
ScanResume ==
    /\ gen.pc = "suspended"
    /\ DoLoopBody(gen)

\* a mutant of ScanReturn: a scan stopped on the ceiling returns a fresh ScanResult
ScanReturnFresh ==
    /\ gen.pc = "loop"
    /\ ~(gen.qHead < gen.qTail) \/ gen.iterations > gen.maxIterations
    /\ gen' = [gen EXCEPT !.pc = "done",
                          !.iterations = IF gen.qHead < gen.qTail THEN @ + 1 ELSE @]
    /\ runs' = [runs EXCEPT ![Len(runs)].exit =
                    IF gen.qHead < gen.qTail THEN "ceiling" ELSE "empty"]
    /\ chunks' = IF gen.qHead < gen.qTail THEN NoChunks ELSE chunks
    /\ UNCHANGED <<written, lastOp, smp, dbVars, globalScanResults, heap, world, config, tempPos,
                   cache0, probes, sinceSuspend>>

\* a mutant of ScanReturn: the loop is left only on an empty queue, the break on the
\* ceiling is missing
ScanReturnNoCeiling ==
    /\ gen.pc = "loop"
    /\ ~(gen.qHead < gen.qTail)
    /\ gen' = [gen EXCEPT !.pc = "done"]
    /\ runs' = [runs EXCEPT ![Len(runs)].exit = "empty"]
    /\ UNCHANGED <<chunks, written, lastOp, smp, dbVars, globalScanResults, heap, world, config,
                   tempPos, cache0, probes, sinceSuspend>>

\* the loop ends (empty queue, or the break on the ceiling) and scan returns result
ScanReturn ==
    /\ gen.pc = "loop"
    /\ ~(gen.qHead < gen.qTail) \/ gen.iterations > gen.maxIterations
    /\ gen' = [gen EXCEPT !.pc = "done",
                          !.iterations = IF gen.qHead < gen.qTail THEN @ + 1 ELSE @]
    /\ runs' = [runs EXCEPT ![Len(runs)].exit =
                    IF gen.qHead < gen.qTail THEN "ceiling" ELSE "empty"]
    /\ UNCHANGED <<chunks, written, lastOp, smp, dbVars, globalScanResults, heap, world, config,
                   tempPos, cache0, probes, sinceSuspend>>

Next ==
    \/ \E m \in OptionalCeilings : ScanStart(m)
    \/ ScanIterate
    \/ ScanYield
    \/ ScanResume
    \/ ScanReturn

Spec == Init /\ [][Next]_vars

(***************************************************************************)
(* The cache specification: a caller of one ScanResult calls updateHeight  *)
(* and clear in any order.                                                 *)
(***************************************************************************)
\* world coordinates written: two cells, in two chunks, one on either side of 0
CachePoints == { <<-1, 3>>, <<0, 3>>, <<5, 3>> }
CacheHeights == {-3, 0, 3, 5}

CellOf(x, z) == <<x \div CELL_SIZE, z \div CELL_SIZE>>

CacheInit ==
    /\ chunks = NoChunks
    /\ written = {}
    /\ lastOp = NoOp
    /\ smp = NoCall
    /\ globalScanResults = NoResults
    /\ heap = NoObjects
    /\ DatabaseIdle
    /\ world = AllValid
    /\ config = NoConfig
    /\ gen = NoFrame
    /\ tempPos = Vec(0, 0, 0)
    /\ cache0 = NoChunks
    /\ probes = {}
    /\ sinceSuspend = 0
    /\ runs = <<>>

scanVars ==
    <<smp, dbVars, globalScanResults, heap, world, config, gen, tempPos, cache0, probes,
      sinceSuspend, runs>>

\* result.updateHeight(x, z, y)
UpdateHeight(x, z, y) ==
    /\ chunks' = updateHeight(chunks, x, z, y)
    /\ written' = written \cup {<<CellOf(x, z), y>>}
    /\ lastOp' = [op |-> "updateHeight", x |-> x, z |-> z, y |-> y,
                  before |-> getHeight(chunks, x, z), chunksBefore |-> DOMAIN chunks]
    /\ UNCHANGED scanVars

\* result.clear()
Clear ==
    /\ chunks' = clear(chunks)
    /\ written' = {}
    /\ lastOp' = [op |-> "clear"]
    /\ UNCHANGED scanVars

CacheNext ==
    \/ \E p \in CachePoints, y \in CacheHeights : UpdateHeight(p[1], p[2], y)
    \/ Clear

CacheSpec == CacheInit /\ [][CacheNext]_vars

\* the greatest element of a non-empty set of integers
Max(S) == CHOOSE m \in S : \A n \in S : n <= m

\* the heights passed to updateHeight for the cell of (x, z) since the last clear
WrittenAt(x, z) == { w[2] : w \in { v \in written : v[1] = CellOf(x, z) } }

\* C1: for any sequence of updateHeight calls with no clear in between, getHeight of a
\* cell is the maximum y ever written to it (so it never decreases), and an
\* updateHeight whose y is lower than or equal to the stored height leaves the
\* stored height as it was.
C1_MonotonicMax ==
    /\ \A p \in CachePoints :
         getHeight(chunks, p[1], p[2]) =
            IF WrittenAt(p[1], p[2]) = {} THEN Undefined
            ELSE Some(Max(WrittenAt(p[1], p[2])))
    /\ (lastOp.op = "updateHeight" /\ lastOp.before # Undefined) =>
         LET b == TheValue(lastOp.before)
             now == getHeight(chunks, lastOp.x, lastOp.z)
         IN /\ now # Undefined
            /\ TheValue(now) >= b
            /\ lastOp.y <= b => now = Some(b)

\* C1 witness: updateHeight(x, z, 3) has just been applied to a cell that held 5
C1_Witness ==
    /\ lastOp.op = "updateHeight"
    /\ lastOp.before = Some(5)
    /\ lastOp.y = 3
    /\ getHeight(chunks, lastOp.x, lastOp.z) = Some(5)

(***************************************************************************)
(* Properties of BFSScanner.scan.                                          *)
(***************************************************************************)
Invoked == gen.pc # "idle"

\* the tags of ScanShape
ScanShapes == {"cube", "sphere", "cylinder"}

\* the points dequeued so far in the current invocation, in order
DequeuedPoints ==
    [i \in 1..(gen.qHead \div 3) |->
        <<gen.queue[3 * i - 2], gen.queue[3 * i - 1], gen.queue[3 * i]>>]

\* C2 (as claimed): in a scan invocation the number of frontier points dequeued never
\* exceeds the configured maxIterations.
C2_DequeuedWithinCeiling ==
    Invoked => gen.qHead \div 3 <= gen.maxIterations

\* C3 (as claimed): at most yieldInterval points are dequeued between the start and the
\* first suspension and between two consecutive suspensions.
C3_BatchWithinYieldInterval ==
    (Invoked /\ gen.yieldInterval >= 1) => sinceSuspend <= gen.yieldInterval

\* C4 (as claimed): a scan invoked with an unrecognized shape tag is rejected before any
\* frontier point is dequeued and never completes with a result.
C4_UnknownShapeRejected ==
    (Invoked /\ gen.shape \notin ScanShapes) => (gen.qHead = 0 /\ gen.pc # "done")

\* C6: in a scan with forceRescan = false every cell that had a recorded height when the
\* scan started keeps exactly that height in every state of the scan (at each
\* suspension and at the end), and no slab is probed for a point whose cell had a
\* recorded height, either at the start or when the point was dequeued.
C6_CachedCellsUntouched ==
    (Invoked /\ ~gen.forceRescan) =>
        /\ \A c \in KnownCells(cache0) :
              getHeight(chunks, c[1], c[2]) = getHeight(cache0, c[1], c[2])
        /\ \A p \in probes : ~p.cached /\ ~hasHeight(cache0, p.x, p.z)

\* C6 witness: a scan without forceRescan over a non-empty cache has finished after
\* dequeuing cached points and probing and recording new cells
C6_Witness ==
    /\ gen.pc = "done"
    /\ ~gen.forceRescan
    /\ \E i \in DOMAIN DequeuedPoints :
          hasHeight(cache0, DequeuedPoints[i][1], DequeuedPoints[i][3])
    /\ \E p \in probes : p.isValid
    /\ KnownCells(chunks) # KnownCells(cache0)

\* the current invocation and the one before it
CurRun == runs[Len(runs)]
PrevRun == runs[Len(runs) - 1]

\* cells are named by the <<x, z>> of their first block; the four cells next to c
Neighbours(c) == { <<c[1] + directions[i].x, c[2] + directions[i].z>> : i \in DOMAIN directions }

\* the seed cell of the current invocation: the center snapped down to the cell grid
SeedCell == <<(gen.center.x \div CELL_SIZE) * CELL_SIZE, (gen.center.z \div CELL_SIZE) * CELL_SIZE>>

\* the shape predicate of the current invocation at its seed level
CellInShape(c) ==
    isWithinShape(c[1], gen.center.y, c[2], gen.center, gen.shape, gen.geometryDimensions,
                  gen.rSq)

\* the cells of S within k steps of the cell from, walking through S only
RECURSIVE Within(_, _, _)
Within(S, reached, k) ==
    LET more == reached \cup { n \in S : \E c \in reached : n \in Neighbours(c) }
    IN IF k = 0 \/ more = reached THEN reached ELSE Within(S, more, k - 1)

\* a cached cell all of whose in-shape neighbours are cached, at the start of the
\* current invocation
Interior(c) ==
    /\ hasHeight(cache0, c[1], c[2])
    /\ \A n \in Neighbours(c) : CellInShape(n) => hasHeight(cache0, n[1], n[2])

Expands(ch, c) ==
    \/ hasHeight(ch, c[1], c[2]) /\ ~gen.forceRescan
    \/ CellInShape(c) /\ ProbeSlab(world, c[1], gen.center.y, c[2]).isValid

\* the cells a scan of the current configuration dequeues when nothing stops it
RECURSIVE Flood(_, _)
Flood(ch, reached) ==
    LET more == reached \cup
                  { n \in UNION { Neighbours(c) : c \in { d \in reached : Expands(ch, d) } } :
                      CellInShape(n) }
    IN IF more = reached THEN reached ELSE Flood(ch, more)

\* the cells a scan with unlimited budget would record
FullCoverage ==
    { c \in Flood(chunks, {SeedCell}) :
        CellInShape(c) /\ ProbeSlab(world, c[1], gen.center.y, c[2]).isValid }

Covered == Invoked /\ FullCoverage \subseteq KnownCells(chunks)

\* every invocation of the history had the same maxIterations
SameCeiling == \A i \in DOMAIN runs : runs[i].maxIterations = runs[1].maxIterations

\* C8 (as claimed): when the caller keeps re-invoking scan with the same maxIterations
\* and the previous cache, the cache eventually covers every cell that a scan with
\* unlimited budget would cover.
C8_EventuallyCovered == <>(~SameCeiling \/ Covered)

\* C8 (amended): a re-invocation with the previous cache never loses a recorded cell;
\* with the same maxIterations it dequeues the same number of points and returns the
\* cache unchanged (no progress); an invocation that ends on an empty frontier, which
\* takes a sufficient maxIterations, covers every cell that a scan with unlimited
\* budget would cover.
C8_ProgressNeedsBudget ==
    (gen.pc = "done" /\ Len(runs) >= 2) =>
        /\ KnownCells(cache0) \subseteq KnownCells(chunks)
        /\ CurRun.maxIterations = PrevRun.maxIterations =>
              (chunks = cache0 /\ CurRun.dequeued = PrevRun.dequeued)
        /\ CurRun.exit = "empty" => Covered

\* C8 witness: a re-invocation with the same explicit ceiling has ended on the ceiling
\* with coverage still incomplete
C8_Witness ==
    /\ gen.pc = "done" /\ Len(runs) >= 2
    /\ CurRun.maxIterations = PrevRun.maxIterations
    /\ CurRun.exit = "ceiling"
    /\ KnownCells(chunks) # {}
    /\ ~Covered

\* the coordinates over which hasHeight is compared, several cells around the shapes
WindowCoordinates == (-4 * CELL_SIZE)..(5 * CELL_SIZE - 1)

\* C9: a scan with center (0,0,0), shape sphere of radius 16, every block valid, an
\* empty initial cache and maxIterations = 10000 ends with hasHeight true exactly at
\* the coordinates of the cells whose 8-block-aligned corner lies within radius 16 of
\* the center.
C9_SphereScenario ==
    (gen.pc = "done" /\ gen.center = Origin /\ gen.shape = "sphere"
        /\ gen.geometryDimensions.x = 16 /\ gen.maxIterations = 10000
        /\ world = AllValid /\ cache0 = NoChunks) =>
        /\ \A x \in WindowCoordinates, z \in WindowCoordinates :
              hasHeight(chunks, x, z) <=>
                 LET ax == (x \div CELL_SIZE) * CELL_SIZE
                     az == (z \div CELL_SIZE) * CELL_SIZE
                 IN ax * ax + az * az <= 16 * 16
        /\ \A c \in KnownCells(chunks) : c[1] * c[1] + c[2] * c[2] <= 16 * 16

\* C9 witness: that scan has ended and the cell at (16, 0), on the sphere, is known
C9_Witness ==
    /\ gen.pc = "done" /\ gen.center = Origin /\ gen.shape = "sphere"
    /\ gen.geometryDimensions.x = 16 /\ gen.maxIterations = 10000
    /\ world = AllValid /\ cache0 = NoChunks
    /\ hasHeight(chunks, 16, 0)
    /\ Cardinality(KnownCells(chunks)) = 13

\* C10: in every state of a scan started on an empty cache (each suspension and the
\* end included) the cells with a recorded height are 4-connected by 8-block steps
\* and, when there are any, include the seed cell; when every block is valid each
\* recorded cell is within maxIterations steps of the seed.
C10_ContiguousFromSeed ==
    (Invoked /\ cache0 = NoChunks) =>
        LET K == KnownCells(chunks)
        IN /\ K # {} => SeedCell \in K
           /\ K \subseteq Within(K, {SeedCell}, Cardinality(K))
           /\ world = AllValid => K \subseteq Within(K, {SeedCell}, gen.maxIterations)

\* C10 witness: a scan with an explicit ceiling in the all-valid world is suspended
\* with two cells recorded
C10_Witness ==
    /\ gen.pc = "suspended" /\ cache0 = NoChunks /\ world = AllValid
    /\ config.maxIterations # Undefined
    /\ Cardinality(KnownCells(chunks)) = 2

(***************************************************************************)
(* The scan specification with a caller that never stops: it resumes a     *)
(* suspended generator and re-invokes scan when the generator has returned.*)
(***************************************************************************)
RescanSpec == Init /\ [][Next]_vars /\ WF_vars(Next)

(***************************************************************************)
(* ScanResult.getRandomPosition.  Every Math.random() is a nondeterministic*)
(* choice; the order of chunks.keys() is the insertion order of the chunks,*)
(* which the chunk map of the model does not keep, so a call draws it.     *)
(***************************************************************************)
MAX_ATTEMPTS == 20
SAMPLES_PER_ATTEMPT == 5

\* JavaScript truthiness of an optional number (undefined and 0 are falsy) and of an
\* optional object
TruthyNumber(o) == o # Undefined /\ TheValue(o) # 0
TruthyObject(o) == o # Undefined

\* the filters a caller passes: "positiveX" accepts the positions with x > 0
ApplyFilter(name, pos) == CASE name = "positiveX" -> pos.x > 0

\* the chunk coordinates parsed from a key
KeyChunkX(key) == parseInt(SplitComma(key)[1])
KeyChunkZ(key) == parseInt(SplitComma(key)[2])

\* the 32-bit integer that >> makes of the sum a + b of two 32-bit integers: the sum
\* is exact in a Number, and ToInt32 wraps it modulo 2^32
ToInt32Sum(a, b) ==
    IF b > 0 /\ a > 2147483647 - b THEN (a - 2147483647 - 1) + (b - 2147483647 - 1)
    ELSE IF b < 0 /\ a < SENTINEL - b THEN (a + 2147483647 + 1) + (b + 2147483647 + 1)
    ELSE a + b

\* distSq > r * r and distSq < r * r as Numbers, for a squared distance below 2^31:
\* the square of a radius beyond 46340 is above every such distance
ExceedsSquare(distSq, r) == Abs(r) <= 46340 /\ distSq > r * r
BelowSquare(distSq, r) == Abs(r) > 46340 \/ distSq < r * r

\* the chunk prefilter: keys.filter(...) when center and maxRadius are truthy
PrefilterKeys(keys, center, maxRadius) ==
    IF TruthyObject(center) /\ TruthyNumber(maxRadius)
    THEN LET c == TheValue(center)
             r == TheValue(maxRadius)
             minChunkX == Shr(ToInt32Sum(c.x, -r), CHUNK_SHIFT + CELL_SHIFT)
             maxChunkX == Shr(ToInt32Sum(c.x, r), CHUNK_SHIFT + CELL_SHIFT)
             minChunkZ == Shr(ToInt32Sum(c.z, -r), CHUNK_SHIFT + CELL_SHIFT)
             maxChunkZ == Shr(ToInt32Sum(c.z, r), CHUNK_SHIFT + CELL_SHIFT)
         IN SelectSeq(keys, LAMBDA key :
                /\ KeyChunkX(key) >= minChunkX /\ KeyChunkX(key) <= maxChunkX
                /\ KeyChunkZ(key) >= minChunkZ /\ KeyChunkZ(key) <= maxChunkZ)
    ELSE keys

\* a mutant of CellPosition: the local coordinates are swapped
CellPositionSwapped(key, localX, localZ, y) ==
    LET cellX == Shl(KeyChunkX(key), CHUNK_SHIFT) + localZ
        cellZ == Shl(KeyChunkZ(key), CHUNK_SHIFT) + localX
    IN [x |-> Shl(cellX, CELL_SHIFT), y |-> y, z |-> Shl(cellZ, CELL_SHIFT)]

\* the world position of the cell at (localX, localZ) of the chunk of key, with height y
CellPosition(key, localX, localZ, y) ==
    LET cellX == Shl(KeyChunkX(key), CHUNK_SHIFT) + localX
        cellZ == Shl(KeyChunkZ(key), CHUNK_SHIFT) + localZ
    IN [x |-> Shl(cellX, CELL_SHIFT), y |-> y, z |-> Shl(cellZ, CELL_SHIFT)]

\* tryFind: whether a sampled known cell at pos is returned
Accepts(pos, center, minRadius, maxRadius, filter, enforceMin) ==
    /\ (TruthyObject(center) /\ TruthyNumber(maxRadius)) =>
          LET dx == pos.x - TheValue(center).x
              dz == pos.z - TheValue(center).z
              distSq == dx * dx + dz * dz
          IN /\ ~ExceedsSquare(distSq, TheValue(maxRadius))
             /\ ~(enforceMin /\ TruthyNumber(minRadius)
                    /\ BelowSquare(distSq, TheValue(minRadius)))
    /\ filter # Undefined => ApplyFilter(TheValue(filter), pos)

\* the comparator's distance of a key: squared chunk-grid distance from the center
ChunkDistance(key, center) ==
    LET cx == Shr(center.x, CHUNK_SHIFT + CELL_SHIFT)
        cz == Shr(center.z, CHUNK_SHIFT + CELL_SHIFT)
    IN (KeyChunkX(key) - cx) * (KeyChunkX(key) - cx)
         + (KeyChunkZ(key) - cz) * (KeyChunkZ(key) - cz)

\* a mutant of SortKeys: the comparator is distA - distB, the nearest chunk comes first
RECURSIVE SortKeysAscending(_, _)
SortKeysAscending(keys, center) ==
    IF keys = <<>> THEN <<>>
    ELSE LET rest == SortKeysAscending(SubSeq(keys, 1, Len(keys) - 1), center)
             last == keys[Len(keys)]
             n == Cardinality({ j \in 1..Len(rest) :
                                  ChunkDistance(rest[j], center) <= ChunkDistance(last, center) })
         IN SubSeq(rest, 1, n) \o <<last>> \o SubSeq(rest, n + 1, Len(rest))

\* keys.sort((a, b) => distB - distA): a stable sort by descending ChunkDistance
RECURSIVE SortKeys(_, _)
SortKeys(keys, center) ==
    IF keys = <<>> THEN <<>>
    ELSE LET rest == SortKeys(SubSeq(keys, 1, Len(keys) - 1), center)
             last == keys[Len(keys)]
             \* last goes behind every key at least as far as it
             n == Cardinality({ j \in 1..Len(rest) :
                                  ChunkDistance(rest[j], center) >= ChunkDistance(last, center) })
         IN SubSeq(rest, 1, n) \o <<last>> \o SubSeq(rest, n + 1, Len(rest))

\* the scan of one chunk in the fallback: Undefined, or Some(bestPos)
BestInChunk(ch, key, center, filter) ==
    LET posAt(i) == CellPosition(key, AndMask(i, CHUNK_MASK), Shr(i, CHUNK_SHIFT), ch[key][i])
        distSq(i) == (posAt(i).x - center.x) * (posAt(i).x - center.x)
                       + (posAt(i).z - center.z) * (posAt(i).z - center.z)
        cand == { i \in 0..(CHUNK_SIZE * CHUNK_SIZE - 1) :
                    /\ ch[key][i] # SENTINEL
                    /\ filter # Undefined => ApplyFilter(TheValue(filter), posAt(i)) }
    IN IF cand = {} THEN Undefined
       ELSE Some(posAt(CHOOSE i \in cand :
                    \A j \in cand : distSq(j) < distSq(i) \/ (distSq(j) = distSq(i) /\ i <= j)))

\* the fallback loop over the sorted keys from index n on
RECURSIVE FirstBest(_, _, _, _, _)
FirstBest(ch, keys, n, center, filter) ==
    IF n > Len(keys) THEN Undefined
    ELSE IF BestInChunk(ch, keys[n], center, filter) # Undefined
         THEN BestInChunk(ch, keys[n], center, filter)
         ELSE FirstBest(ch, keys, n + 1, center, filter)

\* the sequences that list the elements of the set S once each
Orders(S) ==
    { q \in [1..Cardinality(S) -> S] : \A i, j \in DOMAIN q : i # j => q[i] # q[j] }

\* the sampled caches: cells at distances 0, 16 and 48 from the origin in one chunk;
\* the cell at the origin alone; cells in two chunks; a cell in a far chunk; no cell
SampleCaches ==
    { CacheOf(<< <<0, 0, 3>>, <<16, 0, 0>>, <<48, 0, -3>> >>),
      CacheOf(<< <<0, 0, 5>> >>),
      CacheOf(<< <<16, 8, 5>>, <<-8, 0, 0>> >>),
      CacheOf(<< <<130, 0, 0>> >>),
      NoChunks }

\* the arguments of the calls: center, minRadius, maxRadius, filter
SampleArguments ==
    { [center |-> Undefined, minRadius |-> r[1], maxRadius |-> r[2], filter |-> Undefined] :
        r \in { <<Undefined, Undefined>>, <<Some(10), Some(20)>> } }
    \cup
    { [center |-> Some(Origin), minRadius |-> r[1], maxRadius |-> r[2], filter |-> Undefined] :
        r \in { <<Some(10), Some(20)>>, <<Undefined, Some(20)>>, <<Some(10), Undefined>>,
                <<Some(0), Some(0)>>, <<Some(0), Some(20)>> } }
    \cup
    { [center |-> Some(Origin), minRadius |-> Some(10), maxRadius |-> Some(20),
       filter |-> Some("positiveX")],
      [center |-> Some(OffGrid), minRadius |-> Undefined, maxRadius |-> Some(50),
       filter |-> Undefined],
      [center |-> Some(OffGrid), minRadius |-> Undefined, maxRadius |-> Some(2147483647),
       filter |-> Undefined] }

SampleInit ==
    /\ chunks \in SampleCaches
    /\ written = {}
    /\ lastOp = NoOp
    /\ smp = NoCall
    /\ globalScanResults = NoResults
    /\ heap = NoObjects
    /\ DatabaseIdle
    /\ world = AllValid
    /\ config = NoConfig
    /\ gen = NoFrame
    /\ tempPos = Vec(0, 0, 0)
    /\ cache0 = NoChunks
    /\ probes = {}
    /\ sinceSuspend = 0
    /\ runs = <<>>

otherVars ==
    <<chunks, written, lastOp, dbVars, globalScanResults, heap, world, config, gen, tempPos, cache0,
      probes,
      sinceSuspend, runs>>

\* what getRandomPosition returns: the call is over
Returned(f, pos, phase) == [f EXCEPT !.pc = "returned", !.pos = pos, !.phase = phase]

\* a mutant of SampleCall: the call does not return early without candidate chunks
SampleCallNoGuard(args, order) ==
    /\ smp.pc \in {"idle", "returned"}
    /\ smp' = [pc |-> "tryFind", center |-> args.center, minRadius |-> args.minRadius,
               maxRadius |-> args.maxRadius, filter |-> args.filter,
               keys |-> PrefilterKeys(order, args.center, args.maxRadius),
               attempt |-> 0, i |-> 0, randomKey |-> <<>>, pos |-> Undefined,
               phase |-> "none"]
    /\ UNCHANGED otherVars

\* the call, up to the first attempt of tryFind(true)
SampleCall(args, order) ==
    /\ smp.pc \in {"idle", "returned"}
    /\ LET keys == PrefilterKeys(order, args.center, args.maxRadius)
           f == [pc |-> "tryFind", center |-> args.center, minRadius |-> args.minRadius,
                 maxRadius |-> args.maxRadius, filter |-> args.filter, keys |-> keys,
                 attempt |-> 0, i |-> 0, randomKey |-> <<>>, pos |-> Undefined,
                 phase |-> "none"]
       IN smp' = IF DOMAIN chunks = {} \/ Len(keys) = 0
                 THEN Returned(f, Undefined, "none")
                 ELSE f
    /\ UNCHANGED otherVars

\* one sample of tryFind(true): the chunk drawn when the attempt begins, then the
\* cell drawn at (localX, localZ); the call returns the cell, goes on sampling, or
\* leaves tryFind with nothing and goes to the fallback or returns undefined
Sample(k, localX, localZ) ==
    /\ smp.pc = "tryFind"
    /\ smp.i = 0 \/ smp.keys[k] = smp.randomKey
    /\ LET randomKey == smp.keys[k]
           y == chunks[randomKey][BitOr(Shl(localZ, CHUNK_SHIFT), localX)]
           pos == CellPosition(randomKey, localX, localZ, y)
           lastOfAttempt == smp.i + 1 = SAMPLES_PER_ATTEMPT
           lastOfAll == lastOfAttempt /\ smp.attempt + 1 = MAX_ATTEMPTS
       IN smp' =
            IF y # SENTINEL
                 /\ Accepts(pos, smp.center, smp.minRadius, smp.maxRadius, smp.filter, TRUE)
            THEN Returned([smp EXCEPT !.randomKey = randomKey], Some(pos), "random")
            ELSE IF ~lastOfAll
            THEN [smp EXCEPT !.randomKey = randomKey,
                             !.i = IF lastOfAttempt THEN 0 ELSE @ + 1,
                             !.attempt = IF lastOfAttempt THEN @ + 1 ELSE @]
            ELSE IF TruthyNumber(smp.minRadius) /\ TruthyObject(smp.center)
            THEN [smp EXCEPT !.randomKey = randomKey, !.pc = "fallback"]
            ELSE Returned([smp EXCEPT !.randomKey = randomKey], Undefined, "none")
    /\ UNCHANGED otherVars

\* the second attempt: the keys sorted by descending chunk distance, the first chunk
\* with a known cell passing the filter gives its farthest one
Fallback ==
    /\ smp.pc = "fallback"
    /\ LET sorted == SortKeys(smp.keys, TheValue(smp.center))
           best == FirstBest(chunks, sorted, 1, TheValue(smp.center), smp.filter)
       IN smp' = Returned([smp EXCEPT !.keys = sorted], best,
                          IF best = Undefined THEN "none" ELSE "fallback")
    /\ UNCHANGED otherVars

SampleNext ==
    \/ \E args \in SampleArguments, order \in Orders(DOMAIN chunks) : SampleCall(args, order)
    \/ /\ smp.pc = "tryFind"
       /\ \E k \in 1..Len(smp.keys), localX \in 0..(CHUNK_SIZE - 1),
             localZ \in 0..(CHUNK_SIZE - 1) : Sample(k, localX, localZ)
    \/ Fallback

SampleSpec == SampleInit /\ [][SampleNext]_vars

\* the squared horizontal distance of the returned position from the center of the call
ReturnedDistSq ==
    LET pos == TheValue(smp.pos)
        c == TheValue(smp.center)
    IN (pos.x - c.x) * (pos.x - c.x) + (pos.z - c.z) * (pos.z - c.z)

\* C5: a call getRandomPosition(center, minRadius, maxRadius) with minRadius <= maxRadius
\* returns only a position whose horizontal distance from center lies in
\* [minRadius, maxRadius], or none.
C5_ResultWithinAnnulus ==
    (/\ smp.pc = "returned"
     /\ smp.center # Undefined /\ smp.minRadius # Undefined /\ smp.maxRadius # Undefined
     /\ TheValue(smp.minRadius) <= TheValue(smp.maxRadius)
     /\ smp.pos # Undefined)
    => /\ ReturnedDistSq >= TheValue(smp.minRadius) * TheValue(smp.minRadius)
       /\ ReturnedDistSq <= TheValue(smp.maxRadius) * TheValue(smp.maxRadius)

(***************************************************************************)
(* Further properties of BFSScanner.scan.                                  *)
(***************************************************************************)
\* the cell corners of the window
WindowCells ==
    { <<x, z>> \in WindowCoordinates \X WindowCoordinates :
         x % CELL_SIZE = 0 /\ z % CELL_SIZE = 0 }

\* the cells of the window inside the shape of the current invocation
ShapeCells == { c \in WindowCells : CellInShape(c) }

\* the cells within k steps of the seed, walking through cells of the shape
Layers(k) == Within(ShapeCells, {SeedCell}, k)

\* the BFS depth of every cell reachable from the seed
Depths ==
    LET S == ShapeCells
        L == [k \in 0..Cardinality(S) |-> Within(S, {SeedCell}, k)]
    IN [c \in L[Cardinality(S)] |->
          CHOOSE k \in DOMAIN L : c \in L[k] /\ (k = 0 \/ c \notin L[k - 1])]

\* the cells of the points ever put on the queue in the current invocation, in order
QueuedCells ==
    [i \in 1..(gen.qTail \div 3) |-> <<gen.queue[3 * i - 2], gen.queue[3 * i]>>]

\* C11: points leave the queue in the order they were put on it, which is by
\* non-decreasing BFS depth; so with every block valid and an empty initial cache, in
\* every state of a scan (a truncated end included), when a cell at depth d has a
\* recorded height every in-shape cell at a depth less than d has one too.
C11_BfsLayerPrefix ==
    (Invoked /\ world = AllValid /\ cache0 = NoChunks) =>
        LET Depth == Depths
            Q == QueuedCells
            K == KnownCells(chunks)
        IN /\ \A i \in DOMAIN Q : i > 1 => Depth[Q[i - 1]] <= Depth[Q[i]]
           /\ \A c \in K : \A e \in DOMAIN Depth : Depth[e] < Depth[c] => e \in K

\* C11 witness: a scan of the all-valid world from an empty cache has stopped on its
\* ceiling with the seed and two of the four cells at depth 1 recorded
C11_Witness ==
    /\ gen.pc = "done" /\ CurRun.exit = "ceiling"
    /\ world = AllValid /\ cache0 = NoChunks
    /\ Cardinality(KnownCells(chunks)) = 3
    /\ Cardinality(Layers(1)) = 5
    /\ \A c \in KnownCells(chunks) : Depths[c] <= 1

\* what the last block query of the probe p met
LastOutcome(p) ==
    LET pr == ProbeSlab(world, p.x, p.y, p.z)
    IN BlockOutcome(world, p.x + pr.dx, p.y, p.z + pr.dz)

\* the probe p ended on a query that threw or returned no block
QueryFailed(p) == ~p.isValid /\ LastOutcome(p) \in {"throws", "none"}

\* the number of blocks of the slab of p before the first one that is not a valid block
ValidBefore(p) ==
    Cardinality({ i \in 0..(CELL_SIZE * CELL_SIZE - 1) :
        \A j \in 0..i :
           BlockOutcome(world, p.x + (j \div CELL_SIZE), p.y, p.z + (j % CELL_SIZE)) = "valid" })

\* the position in the dequeue order of the point probed by p
DequeuedAt(p) == CHOOSE i \in DOMAIN DequeuedPoints : DequeuedPoints[i] = <<p.x, p.y, p.z>>

\* C12: a block query that throws or returns no block while a slab is probed does not
\* end the scan: the step that meets it leaves the generator in its loop with the
\* rest of the queue intact, records no height, puts no neighbour on the queue, and
\* made no query after the failed one; no point is dequeued (hence probed) twice.
C12_FailedQueryContained ==
    /\ [](Invoked => \A i, j \in DOMAIN DequeuedPoints :
                        DequeuedPoints[i] = DequeuedPoints[j] => i = j)
    /\ [][\A p \in probes' \ probes :
             QueryFailed(p) =>
                /\ gen'.pc = "loop"
                /\ chunks' = chunks
                /\ gen'.queue = gen.queue /\ gen'.qTail = gen.qTail
                /\ gen'.qHead = gen.qHead + 3
                /\ p.queries = ValidBefore(p) + 1]_vars

\* C12 witness: a scan has run to an empty frontier after a probe met a throwing query
\* and another met a missing block, and a point dequeued after a failed probe was
\* probed and recorded
C12_Witness ==
    /\ gen.pc = "done" /\ CurRun.exit = "empty"
    /\ \E p, q \in probes :
          /\ QueryFailed(p) /\ LastOutcome(p) = "throws" /\ ~hasHeight(chunks, p.x, p.z)
          /\ QueryFailed(q) /\ LastOutcome(q) = "none" /\ ~hasHeight(chunks, q.x, q.z)
    /\ \E p, q \in probes :
          QueryFailed(p) /\ q.isValid /\ DequeuedAt(p) < DequeuedAt(q)

\* the height a cell has after the current invocation recorded the level y on the
\* height before, or kept before when nothing was recorded
HeightAfter(before, recorded) ==
    IF recorded = {} THEN before
    ELSE IF before = Undefined THEN Some(Max(recorded))
    ELSE Some(Max(recorded \cup before))

\* the levels recorded for the cell of (x, z) by the valid probes of the current invocation
RecordedAt(x, z) ==
    { p.y : p \in { q \in probes : q.isValid /\ CellOf(q.x, q.z) = CellOf(x, z) } }

\* every cell holds what it held at the start of the invocation raised by what the
\* valid probes recorded
HoldsAccumulated ==
    \A c \in KnownCells(cache0) \cup { <<p.x, p.z>> : p \in probes } :
        getHeight(chunks, c[1], c[2]) =
            HeightAfter(getHeight(cache0, c[1], c[2]), RecordedAt(c[1], c[2]))

\* C13: when the loop is left on the iteration ceiling with points still on the queue,
\* scan returns normally (the generator is done, no height is touched by the return)
\* and the returned cache holds every height present at the start and every height
\* recorded up to the break.
C13_TruncatedReturnsCache ==
    /\ [][(gen.pc = "loop" /\ gen'.pc # "loop" /\ gen.qHead < gen.qTail
             /\ gen.iterations > gen.maxIterations) =>
            (gen'.pc = "done" /\ chunks' = chunks /\ runs'[Len(runs')].exit = "ceiling")]_vars
    /\ []((gen.pc = "done" /\ CurRun.exit = "ceiling") =>
            (gen.qHead < gen.qTail /\ HoldsAccumulated))

\* C13 witness: a scan over a non-empty cache has returned on its ceiling, with points
\* left on the queue, after recording a new cell
C13_Witness ==
    /\ gen.pc = "done" /\ CurRun.exit = "ceiling"
    /\ gen.qHead < gen.qTail
    /\ cache0 # NoChunks
    /\ \E p \in probes : p.isValid /\ ~hasHeight(cache0, p.x, p.z) /\ hasHeight(chunks, p.x, p.z)

(***************************************************************************)
(* Two scans compared: the caller runs scan to its end, then runs it again *)
(* with the same configuration on a copy of the same initial cache in a    *)
(* world that may differ.  lastOp keeps what the first scan returned.      *)
(***************************************************************************)
TwinStart(maxIterations) ==
    /\ runs = <<>>
    /\ ScanStart(maxIterations)

\* the second scan: same config, the initial cache again, the world w
TwinSwitch(w) ==
    /\ gen.pc = "done"
    /\ Len(runs) = 1
    /\ lastOp' = [op |-> "scan", result |-> chunks]
    /\ world' = w
    /\ chunks' = cache0
    /\ gen' = StartFrame(config)
    /\ probes' = {}
    /\ sinceSuspend' = 0
    /\ runs' = Append(runs, [maxIterations |-> config.maxIterations, exit |-> "none",
                             dequeued |-> 0])
    /\ UNCHANGED <<written, smp, dbVars, globalScanResults, heap, config, tempPos, cache0>>

TwinNext ==
    \/ \E m \in OptionalCeilings : TwinStart(m)
    \/ ScanIterate
    \/ ScanYield
    \/ ScanResume
    \/ ScanReturn
    \/ \E w \in Worlds : TwinSwitch(w)

TwinSpec == Init /\ [][TwinNext]_vars

\* both scans have returned
BothDone == gen.pc = "done" /\ Len(runs) = 2 /\ lastOp.op = "scan"

\* what a caller sees of the two scans is the same: the returned caches are equal and
\* as many points were dequeued (so the generators suspended as many times)
SameOutcome == lastOp.result = chunks /\ PrevRun.dequeued = CurRun.dequeued

\* C14 (as claimed): no two scans with the same inputs and the same observable outcome
\* differ in whether they stopped on the iteration ceiling.
C14_TruncationDetectable ==
    (BothDone /\ SameOutcome) => PrevRun.exit = CurRun.exit

\* C15: a scan with forceRescan = true never removes or lowers a recorded height: in
\* every state each cell recorded at the start still has a height, at least the one
\* it had; and when every slab the scan probed failed the validity predicate, the
\* cache at the end is the cache at the start.
C15_ForceRescanKeepsHeights ==
    (Invoked /\ gen.forceRescan) =>
        /\ \A c \in KnownCells(cache0) :
              /\ hasHeight(chunks, c[1], c[2])
              /\ TheValue(getHeight(chunks, c[1], c[2])) >= TheValue(getHeight(cache0, c[1], c[2]))
        /\ (gen.pc = "done" /\ \A p \in probes : ~p.isValid) => chunks = cache0

\* C15 witness: a scan with forceRescan = true has ended after probing a recorded cell
\* whose slab is no longer valid, and no probe succeeded
C15_Witness ==
    /\ gen.pc = "done" /\ gen.forceRescan
    /\ cache0 # NoChunks
    /\ \E p \in probes : p.cached /\ ~p.isValid /\ hasHeight(chunks, p.x, p.z)
    /\ \A p \in probes : ~p.isValid

(***************************************************************************)
(* Further properties of ScanResult.                                       *)
(***************************************************************************)
\* the coordinates at which the cache is queried: the cells written and those around
CacheWindow == (-2 * CELL_SIZE)..(2 * CELL_SIZE - 1)

\* C16: a ScanResult on which nothing was called has no chunk and reports hasHeight
\* false at every coordinate; after one updateHeight on a ScanResult without chunks
\* exactly one chunk exists and hasHeight is true exactly at the coordinates of the
\* written cell.
C16_FreshThenOneCell ==
    /\ lastOp = NoOp =>
          /\ DOMAIN chunks = {}
          /\ \A x \in CacheWindow, z \in CacheWindow : ~hasHeight(chunks, x, z)
    /\ (lastOp.op = "updateHeight" /\ lastOp.chunksBefore = {}) =>
          /\ Cardinality(DOMAIN chunks) = 1
          /\ \A x \in CacheWindow, z \in CacheWindow :
                hasHeight(chunks, x, z) <=> CellOf(x, z) = CellOf(lastOp.x, lastOp.z)
          /\ Cardinality(KnownCells(chunks)) = 1

\* C16 witness: the first updateHeight wrote (-1, 3): the cell of (-8, 0) is known and
\* the cell of (0, 3), one block away, is not
C16_Witness ==
    /\ lastOp.op = "updateHeight" /\ lastOp.chunksBefore = {}
    /\ lastOp.x = -1 /\ lastOp.z = 3
    /\ hasHeight(chunks, -8, 0) /\ ~hasHeight(chunks, 0, 3)

\* heights down to the least 32-bit integer, the value of SENTINEL
WideHeights == {SENTINEL, SENTINEL + 1, -3, 0}

WideCacheNext ==
    \/ \E p \in CachePoints, y \in WideHeights : UpdateHeight(p[1], p[2], y)
    \/ Clear

\* the cache specification with the heights of WideHeights
WideCacheSpec == CacheInit /\ [][WideCacheNext]_vars

\* after clear() every cell is unknown again
UnknownAfterClear ==
    lastOp.op = "clear" =>
        /\ DOMAIN chunks = {}
        /\ \A x \in CacheWindow, z \in CacheWindow : getHeight(chunks, x, z) = Undefined

\* C17 (as claimed): getHeight of a cell is unknown if and only if no updateHeight was
\* applied to the cell since construction or the last clear(); a written height of
\* zero or of any negative value is reported as known; after clear() every cell is
\* unknown.
C17_UnknownIffNeverWritten ==
    /\ \A p \in CachePoints :
          /\ getHeight(chunks, p[1], p[2]) = Undefined <=> WrittenAt(p[1], p[2]) = {}
          /\ \A y \in WrittenAt(p[1], p[2]) : y <= 0 => hasHeight(chunks, p[1], p[2])
    /\ UnknownAfterClear

\* the heights written to the cell of (x, z) that are above the sentinel value
WrittenAbove(x, z) == { y \in WrittenAt(x, z) : y > SENTINEL }

\* C17 (amended): getHeight of a cell is unknown if and only if no updateHeight with a
\* y above -2147483648 was applied to the cell since construction or the last
\* clear() (an updateHeight with y = -2147483648, the sentinel, writes nothing);
\* otherwise it is the greatest such y, zero and negative values down to -2147483647
\* included; after clear() every cell is unknown.
C17_UnknownIffNoneAboveSentinel ==
    /\ \A p \in CachePoints :
          getHeight(chunks, p[1], p[2]) =
             IF WrittenAbove(p[1], p[2]) = {} THEN Undefined
             ELSE Some(Max(WrittenAbove(p[1], p[2])))
    /\ UnknownAfterClear

\* C17 witness: one cell was written 0 only and is known at 0, while the other was
\* written the sentinel value only and is unknown
C17_Witness ==
    /\ WrittenAt(0, 3) = {0} /\ getHeight(chunks, 0, 3) = Some(0)
    /\ WrittenAt(-1, 3) = {SENTINEL} /\ getHeight(chunks, -1, 3) = Undefined

(***************************************************************************)
(* BFSScanner.isWithinShape as a function of its arguments: a call is drawn*)
(* and the function is applied to it.  lastOp holds the call and its result.*)
(***************************************************************************)
GridCoordinates == -6..6

\* the shapes called with: the cube (2,2,2), the sphere of radius 5, the cylinder of
\* radius 3 and half-height 2, and a cube with three different extents
ShapeCalls ==
    { [shape |-> "cube", dims |-> Vec(2, 2, 2)],
      [shape |-> "sphere", dims |-> Vec(5, 0, 0)],
      [shape |-> "cylinder", dims |-> Vec(3, 2, 0)],
      [shape |-> "cube", dims |-> Vec(1, 2, 3)] }

ShapeCenters == {Origin, Vec(1, -2, 3)}

ShapeInit ==
    /\ \E g \in ShapeCalls, c \in ShapeCenters,
          x \in GridCoordinates, y \in GridCoordinates, z \in GridCoordinates :
            lastOp = [op |-> "call", x |-> x, y |-> y, z |-> z, center |-> c,
                      shape |-> g.shape, dims |-> g.dims]
    /\ chunks = NoChunks
    /\ written = {}
    /\ smp = NoCall
    /\ globalScanResults = NoResults
    /\ heap = NoObjects
    /\ DatabaseIdle
    /\ world = AllValid
    /\ config = NoConfig
    /\ gen = NoFrame
    /\ tempPos = Vec(0, 0, 0)
    /\ cache0 = NoChunks
    /\ probes = {}
    /\ sinceSuspend = 0
    /\ runs = <<>>

\* this.isWithinShape(x, y, z, center, shape, geometryDimensions, rSq) with the rSq
\* that scan computes
IsWithinShapeCall ==
    /\ lastOp.op = "call"
    /\ lastOp' = [op |-> "isWithinShape", x |-> lastOp.x, y |-> lastOp.y, z |-> lastOp.z,
                  center |-> lastOp.center, shape |-> lastOp.shape, dims |-> lastOp.dims,
                  result |-> isWithinShape(lastOp.x, lastOp.y, lastOp.z, lastOp.center,
                                           lastOp.shape, lastOp.dims,
                                           lastOp.dims.x * lastOp.dims.x)]
    /\ UNCHANGED <<chunks, written>>
    /\ UNCHANGED scanVars

ShapeNext == IsWithinShapeCall

ShapeSpec == ShapeInit /\ [][ShapeNext]_vars

\* the points of the grid within distance d of 0 are -d..d
Near(v, d) == v \in (0 - d)..d

\* the definition of the shapes, relative to the center
InShapeByDefinition(shape, dims, dx, dy, dz) ==
    CASE shape = "cube" -> Near(dx, dims.x) /\ Near(dy, dims.y) /\ Near(dz, dims.z)
      [] shape = "sphere" -> ~(dx * dx + dy * dy + dz * dz > dims.x * dims.x)
      [] shape = "cylinder" -> ~(dx * dx + dz * dz > dims.x * dims.x) /\ Near(dy, dims.y)

\* the call was isWithinShape of the point (x, y, z) for the shape and dims, center Origin
CallAtOrigin(shape, dims, x, y, z) ==
    /\ lastOp.shape = shape /\ lastOp.dims = dims /\ lastOp.center = Origin
    /\ lastOp.x = x /\ lastOp.y = y /\ lastOp.z = z

\* C18: at every point of the grid the shape predicate is its boundary-inclusive
\* definition: cube iff |dx| <= ex, |dy| <= ey and |dz| <= ez; sphere iff
\* dx^2 + dy^2 + dz^2 <= r^2; cylinder iff dx^2 + dz^2 <= r^2 and |dy| <= halfHeight;
\* in particular cube (2,2,2): (2,0,0) in, (3,0,0) out; sphere 5: (3,4,0) in, (3,4,1)
\* out; cylinder 3/2: (0,2,3) in, (0,3,3) out.
C18_ShapeByDefinition ==
    lastOp.op = "isWithinShape" =>
        /\ lastOp.result =
              InShapeByDefinition(lastOp.shape, lastOp.dims, lastOp.x - lastOp.center.x,
                                  lastOp.y - lastOp.center.y, lastOp.z - lastOp.center.z)
        /\ CallAtOrigin("cube", Vec(2, 2, 2), 2, 0, 0) => lastOp.result
        /\ CallAtOrigin("cube", Vec(2, 2, 2), 3, 0, 0) => ~lastOp.result
        /\ CallAtOrigin("sphere", Vec(5, 0, 0), 3, 4, 0) => lastOp.result
        /\ CallAtOrigin("sphere", Vec(5, 0, 0), 3, 4, 1) => ~lastOp.result
        /\ CallAtOrigin("cylinder", Vec(3, 2, 0), 0, 2, 3) => lastOp.result
        /\ CallAtOrigin("cylinder", Vec(3, 2, 0), 0, 3, 3) => ~lastOp.result

\* C18 witness: isWithinShape answered true for (3,4,0) in the sphere of radius 5 at
\* the origin, a point at distance exactly 5
C18_Witness ==
    /\ lastOp.op = "isWithinShape"
    /\ CallAtOrigin("sphere", Vec(5, 0, 0), 3, 4, 0)
    /\ lastOp.result

(***************************************************************************)
(* The suspension points of BFSScanner.scan.                               *)
(***************************************************************************)
\* the points on the queue that were not dequeued yet
PendingPoints ==
    { <<gen.queue[3 * i - 2], gen.queue[3 * i - 1], gen.queue[3 * i]>> :
        i \in ((gen.qHead \div 3) + 1)..(gen.qTail \div 3) }

\* the dequeued point pt had its neighbours expanded: its cell was recorded when the
\* scan began and forceRescan is off, or its slab was probed valid
WasExpanded(pt) ==
    \/ ~gen.forceRescan /\ hasHeight(cache0, pt[1], pt[3])
    \/ \E p \in probes : p.isValid /\ <<p.x, p.y, p.z>> = pt

\* the neighbours of the point pt that lie in the shape
ShapeNeighbours(pt) ==
    { n \in { <<pt[1] + directions[i].x, pt[2] + directions[i].y, pt[3] + directions[i].z>> :
                i \in DOMAIN directions } :
        isWithinShape(n[1], n[2], n[3], gen.center, gen.shape, gen.geometryDimensions, gen.rSq) }

\* nothing is half done: the queue holds whole points, every point waiting on it is
\* marked visited, every valid probe has its height recorded, and every dequeued
\* point that was expanded has all its in-shape neighbours marked visited
AtCellBoundary ==
    /\ gen.qHead % 3 = 0 /\ gen.qTail % 3 = 0 /\ gen.qTail = Len(gen.queue)
    /\ \A pt \in PendingPoints : isVisited(gen.visitedXZ, pt[1], pt[2], pt[3])
    /\ \A p \in probes : p.isValid => hasHeight(chunks, p.x, p.z)
    /\ \A i \in DOMAIN DequeuedPoints :
          /\ isVisited(gen.visitedXZ, DequeuedPoints[i][1], DequeuedPoints[i][2],
                       DequeuedPoints[i][3])
          /\ WasExpanded(DequeuedPoints[i]) =>
                \A n \in ShapeNeighbours(DequeuedPoints[i]) :
                    isVisited(gen.visitedXZ, n[1], n[2], n[3])
    /\ CurRun.dequeued = gen.qHead \div 3

\* C19: the generator is suspended only by the cadence check at the top of a loop
\* pass, before the pass dequeues its point: the step that suspends it starts in the
\* loop and touches neither the queue, the visited map nor the cache; and in every
\* suspended state a point is waiting to be dequeued and nothing is half done.
C19_SuspendsBetweenCells ==
    /\ [][(gen'.pc = "suspended" /\ gen.pc # "suspended") =>
            /\ gen.pc = "loop"
            /\ gen.processedSinceYield >= gen.yieldInterval
            /\ gen'.qHead = gen.qHead /\ gen'.qTail = gen.qTail /\ gen'.queue = gen.queue
            /\ gen'.visitedXZ = gen.visitedXZ
            /\ chunks' = chunks /\ probes' = probes]_vars
    /\ [](gen.pc = "suspended" => (gen.qHead < gen.qTail /\ AtCellBoundary))

\* C19 witness: the generator is suspended after a cell was recorded and expanded,
\* with several points waiting on the queue
C19_Witness ==
    /\ gen.pc = "suspended"
    /\ \E i \in DOMAIN DequeuedPoints :
          WasExpanded(DequeuedPoints[i]) /\ ShapeNeighbours(DequeuedPoints[i]) # {}
    /\ \E p \in probes : p.isValid
    /\ Cardinality(PendingPoints) >= 2

(***************************************************************************)
(* BFSScanner.getScanResult and the ScanResults it hands out.  A caller    *)
(* asks for the caches of dimensions, writes heights through the           *)
(* references it got, and scans with one of them as existingResult.        *)
(***************************************************************************)
Dimensions == {"minecraft:overworld", "minecraft:nether"}

\* the reference of the next new ScanResult()
NewReference(h) == Cardinality(DOMAIN h) + 1

\* a mutant of getScanResult: a new ScanResult is created and set at every call
getScanResultAlwaysNew(g, h, dimensionId) ==
    LET r == NewReference(h)
    IN [globalScanResults |-> [d \in (DOMAIN g) \cup {dimensionId} |->
                                  IF d = dimensionId THEN r ELSE g[d]],
        heap |-> [o \in (DOMAIN h) \cup {r} |-> IF o = r THEN NoChunks ELSE h[o]],
        result |-> r]

\* BFSScanner.getScanResult(dimensionId) on the map g and the objects h: the map and
\* the objects after the call, and the reference returned
getScanResult(g, h, dimensionId) ==
    IF dimensionId \notin DOMAIN g
    THEN LET r == NewReference(h)
         IN [globalScanResults |-> [d \in (DOMAIN g) \cup {dimensionId} |->
                                       IF d = dimensionId THEN r ELSE g[d]],
             heap |-> [o \in (DOMAIN h) \cup {r} |-> IF o = r THEN NoChunks ELSE h[o]],
             result |-> r]
    ELSE [globalScanResults |-> g, heap |-> h, result |-> g[dimensionId]]

\* the scan of the registry scenario: a cube of three cells along x, suspended at
\* every second pass
RegistryConfig ==
    [center |-> Origin, shape |-> "cube", geometryDimensions |-> Vec(8, 0, 0),
     maxIterations |-> Undefined, forceRescan |-> Undefined, yieldInterval |-> Some(1)]

\* what the caller writes by hand
RegistryPoint == <<3, 0>>
RegistryHeights == {-3, 5}

RegistryInit ==
    /\ chunks = NoChunks
    /\ written = {}
    /\ lastOp = NoOp
    /\ smp = NoCall
    /\ globalScanResults = NoResults
    /\ heap = NoObjects
    /\ DatabaseIdle
    /\ world = AllValid
    /\ config = RegistryConfig
    /\ gen = NoFrame
    /\ tempPos = Vec(0, 0, 0)
    /\ cache0 = NoChunks
    /\ probes = {}
    /\ sinceSuspend = 0
    /\ runs = <<>>

\* the variables of the other specifications that the registry leaves alone
unusedVars == <<chunks, written, smp, dbVars, world, config, cache0, probes, sinceSuspend, runs>>

\* scanner.getScanResult(dimensionId)
GetScanResult(dimensionId) ==
    /\ \E r \in {getScanResult(globalScanResults, heap, dimensionId)} :
          /\ globalScanResults' = r.globalScanResults
          /\ heap' = r.heap
          /\ lastOp' = [op |-> "getScanResult", dimensionId |-> dimensionId,
                        existed |-> dimensionId \in DOMAIN globalScanResults,
                        result |-> r.result]
    /\ UNCHANGED <<gen, tempPos>>
    /\ UNCHANGED unusedVars

\* result.updateHeight(x, z, y) through a reference the caller got before
ResultUpdateHeight(ref, x, z, y) ==
    /\ ref \in DOMAIN heap
    /\ heap' = [heap EXCEPT ![ref] = updateHeight(@, x, z, y)]
    /\ lastOp' = [op |-> "updateHeight", target |-> ref, x |-> x, z |-> z, y |-> y]
    /\ UNCHANGED <<globalScanResults, gen, tempPos>>
    /\ UNCHANGED unusedVars

\* scanner.scan(dimension, config, result) with a reference the caller got before,
\* and the first next() up to the loop
ResultScanStart(ref) ==
    /\ gen.pc \in {"idle", "done"}
    /\ ref \in DOMAIN heap
    /\ gen' = ("result" :> ref) @@ StartFrame(config)
    /\ UNCHANGED <<lastOp, globalScanResults, heap, tempPos>>
    /\ UNCHANGED unusedVars

\* the effects of one loop body on the ScanResult that the generator holds
DoResultLoopBody(f) ==
    \E r \in {LoopBody(f, heap[f.result], tempPos, world)} :
       /\ gen' = [r.frame EXCEPT !.pc = "loop"]
       /\ heap' = [heap EXCEPT ![f.result] = r.chunks]
       /\ tempPos' = r.tempPos
       /\ UNCHANGED <<lastOp, globalScanResults>>
       /\ UNCHANGED unusedVars

ResultScanIterate ==
    /\ gen.pc = "loop"
    /\ gen.qHead < gen.qTail
    /\ ~(gen.iterations > gen.maxIterations)
    /\ ~(gen.processedSinceYield >= gen.yieldInterval)
    /\ DoResultLoopBody([gen EXCEPT !.iterations = @ + 1, !.processedSinceYield = @ + 1])

ResultScanYield ==
    /\ gen.pc = "loop"
    /\ gen.qHead < gen.qTail
    /\ ~(gen.iterations > gen.maxIterations)
    /\ gen.processedSinceYield >= gen.yieldInterval
    /\ gen' = [gen EXCEPT !.iterations = @ + 1, !.processedSinceYield = 0,
                          !.pc = "suspended"]
    /\ UNCHANGED <<lastOp, globalScanResults, heap, tempPos>>
    /\ UNCHANGED unusedVars

ResultScanResume ==
    /\ gen.pc = "suspended"
    /\ DoResultLoopBody(gen)

ResultScanReturn ==
    /\ gen.pc = "loop"
    /\ ~(gen.qHead < gen.qTail) \/ gen.iterations > gen.maxIterations
    /\ gen' = [gen EXCEPT !.pc = "done",
                          !.iterations = IF gen.qHead < gen.qTail THEN @ + 1 ELSE @]
    /\ UNCHANGED <<lastOp, globalScanResults, heap, tempPos>>
    /\ UNCHANGED unusedVars

RegistryNext ==
    \/ \E d \in Dimensions : GetScanResult(d)
    \/ \E ref \in DOMAIN heap, y \in RegistryHeights :
          ResultUpdateHeight(ref, RegistryPoint[1], RegistryPoint[2], y)
    \/ \E ref \in DOMAIN heap : ResultScanStart(ref)
    \/ ResultScanIterate
    \/ ResultScanYield
    \/ ResultScanResume
    \/ ResultScanReturn

RegistrySpec == RegistryInit /\ [][RegistryNext]_vars

\* the step is a write through the ScanResult ref: an updateHeight on it, or a
\* loop body of a scan that holds it as result
WritesThrough(ref) ==
    \/ lastOp' # lastOp /\ lastOp'.op = "updateHeight" /\ lastOp'.target = ref
    \/ gen.pc \in {"loop", "suspended"} /\ gen.result = ref

\* C20: getScanResult(key) creates an empty cache on the first access of the key and
\* afterwards always returns that same cache for the key; different keys have
\* different caches, and a step changes the heights of a key's cache only when it is
\* an updateHeight on that cache or a scan holding that cache, so writing one key's
\* cache never changes another's.
C20_OneCachePerKey ==
    /\ [][\A d \in DOMAIN globalScanResults :
             d \in DOMAIN globalScanResults' /\ globalScanResults'[d] = globalScanResults[d]]_vars
    /\ [][\A d \in (DOMAIN globalScanResults') \ (DOMAIN globalScanResults) :
             /\ globalScanResults'[d] \notin DOMAIN heap
             /\ heap'[globalScanResults'[d]] = NoChunks]_vars
    /\ [][\A ref \in DOMAIN heap :
             heap'[ref] # heap[ref] => WritesThrough(ref)]_vars
    /\ [](/\ \A d, e \in DOMAIN globalScanResults :
                d # e => globalScanResults[d] # globalScanResults[e]
          /\ \A d \in DOMAIN globalScanResults : globalScanResults[d] \in DOMAIN heap
          /\ lastOp.op = "getScanResult" =>
                /\ lastOp.dimensionId \in DOMAIN globalScanResults
                /\ lastOp.result = globalScanResults[lastOp.dimensionId])

\* C20 witness: getScanResult was called again for the overworld and returned the
\* cache that a scan has filled with three cells, while the cache of the nether holds
\* only the height 5 written by hand
C20_Witness ==
    /\ lastOp.op = "getScanResult" /\ lastOp.existed
    /\ lastOp.dimensionId = "minecraft:overworld"
    /\ gen.pc = "done" /\ gen.result = lastOp.result
    /\ Cardinality(KnownCells(heap[lastOp.result])) = 3
    /\ getHeight(heap[lastOp.result], 0, 0) = Some(0)
    /\ "minecraft:nether" \in DOMAIN globalScanResults
    /\ KnownCells(heap[globalScanResults["minecraft:nether"]]) = {<<0, 0>>}
    /\ getHeight(heap[globalScanResults["minecraft:nether"]], 0, 0) = Some(5)

(***************************************************************************)
(* Further properties of ScanResult.getRandomPosition.                     *)
(***************************************************************************)
\* the positions of the known cells of the candidate chunks of the call
CandidatePositions ==
    { CellPosition(smp.keys[k], AndMask(i, CHUNK_MASK), Shr(i, CHUNK_SHIFT),
                   chunks[smp.keys[k]][i]) :
        <<k, i>> \in { ki \in (DOMAIN smp.keys) \X (0..(CHUNK_SIZE * CHUNK_SIZE - 1)) :
                          chunks[smp.keys[ki[1]]][ki[2]] # SENTINEL } }

PassesFilter(pos) == smp.filter # Undefined => ApplyFilter(TheValue(smp.filter), pos)

\* the second attempt applies to the call
FallbackApplies == TruthyNumber(smp.minRadius) /\ TruthyObject(smp.center)

\* C21: getRandomPosition raises nothing and returns undefined when there is nothing
\* to return: while it samples, the chunk it reads exists; on an empty cache or when
\* the prefilter leaves no chunk it returns undefined at once; and when it returns
\* undefined with candidate chunks, all 100 samples were rejected and either the
\* second attempt does not apply or no known cell of a candidate chunk passes the
\* filter.  A position it returns is a known cell with its height.
C21_ReturnsUndefined ==
    /\ smp.pc \in {"tryFind", "fallback"} =>
          /\ smp.keys # <<>>
          /\ \A k \in DOMAIN smp.keys : smp.keys[k] \in DOMAIN chunks
          /\ smp.attempt < MAX_ATTEMPTS /\ smp.i < SAMPLES_PER_ATTEMPT
    /\ smp.pc = "returned" =>
          /\ (DOMAIN chunks = {} \/ smp.keys = <<>>) => smp.pos = Undefined
          /\ smp.pos = Undefined <=> smp.phase = "none"
          /\ (smp.pos = Undefined /\ smp.keys # <<>>) =>
                /\ smp.attempt = MAX_ATTEMPTS - 1 /\ smp.i = SAMPLES_PER_ATTEMPT - 1
                /\ FallbackApplies => \A pos \in CandidatePositions : ~PassesFilter(pos)
          /\ smp.pos # Undefined =>
                getHeight(chunks, TheValue(smp.pos).x, TheValue(smp.pos).z)
                   = Some(TheValue(smp.pos).y)

\* C21 witness: a call with center, radii and filter on a cache whose only known cell
\* fails the filter has returned undefined after both attempts
C21_Witness ==
    /\ smp.pc = "returned" /\ smp.pos = Undefined
    /\ smp.keys # <<>> /\ FallbackApplies /\ smp.filter # Undefined
    /\ CandidatePositions # {}


(***************************************************************************)
(* The visited set and the frontier queue.                                 *)
(***************************************************************************)
\* the points enqueued so far in the invocation of the frame f, in order
QueuedPoints(f) ==
    [i \in 1..(f.qTail \div 3) |-> <<f.queue[3 * i - 2], f.queue[3 * i - 1], f.queue[3 * i]>>]

\* the frame f is the frame of a running invocation
Running(f) == f.pc \in {"loop", "suspended"}

\* C25: within one scan invocation the same (x, y, z) is never enqueued twice: every
\* enqueued point is marked visited, a step of the invocation enqueues only points
\* that were not visited before it and are visited after it, and it removes no mark.
C25_EnqueuedOnce ==
    /\ [](Invoked =>
            /\ \A i, j \in DOMAIN QueuedPoints(gen) :
                  QueuedPoints(gen)[i] = QueuedPoints(gen)[j] => i = j
            /\ \A i \in DOMAIN QueuedPoints(gen) :
                  isVisited(gen.visitedXZ, QueuedPoints(gen)[i][1], QueuedPoints(gen)[i][2],
                            QueuedPoints(gen)[i][3]))
    /\ [][(Running(gen) /\ Invoked') =>
            /\ gen.qTail <= gen'.qTail
            /\ SubSeq(gen'.queue, 1, gen.qTail) = gen.queue
            /\ \A k \in DOMAIN gen.visitedXZ :
                  k \in DOMAIN gen'.visitedXZ /\ gen.visitedXZ[k] \subseteq gen'.visitedXZ[k]
            /\ \A i \in ((gen.qTail \div 3) + 1)..(gen'.qTail \div 3) :
                  /\ ~isVisited(gen.visitedXZ, QueuedPoints(gen')[i][1],
                                QueuedPoints(gen')[i][2], QueuedPoints(gen')[i][3])
                  /\ isVisited(gen'.visitedXZ, QueuedPoints(gen')[i][1],
                               QueuedPoints(gen')[i][2], QueuedPoints(gen')[i][3])]_vars

\* a neighbour of a dequeued point was skipped because it was visited: the frontier
\* came back to a point next to two dequeued points
C25_Witness ==
    /\ Invoked
    /\ gen.qTail \div 3 >= 5
    /\ \E i, j \in DOMAIN DequeuedPoints :
         /\ i < j
         /\ \E k \in DOMAIN QueuedPoints(gen) :
              /\ <<QueuedPoints(gen)[k][1], QueuedPoints(gen)[k][3]>>
                    \in Neighbours(<<DequeuedPoints[i][1], DequeuedPoints[i][3]>>)
              /\ <<QueuedPoints(gen)[k][1], QueuedPoints(gen)[k][3]>>
                    \in Neighbours(<<DequeuedPoints[j][1], DequeuedPoints[j][3]>>)
              /\ Expands(chunks, <<DequeuedPoints[j][1], DequeuedPoints[j][3]>>)


(***************************************************************************)
(* The shape check and the probe.                                          *)
(***************************************************************************)
\* the point pt passes the shape check of the invocation of the frame f
InShape(f, pt) ==
    isWithinShape(pt[1], pt[2], pt[3], f.center, f.shape, f.geometryDimensions, f.rSq)

\* a step dequeues a point: the point
DequeueStep == Running(gen) /\ Running(gen') /\ gen'.qHead = gen.qHead + 3
Dequeued == <<gen.queue[gen.qHead + 1], gen.queue[gen.qHead + 2], gen.queue[gen.qHead + 3]>>

\* the cell of the point pt had a height before the step and forceRescan is off
TrustedCell(pt) == hasHeight(chunks, pt[1], pt[3]) /\ ~gen.forceRescan

\* no slab is queried for a point outside the shape, and every neighbour that was
\* marked visited or enqueued is inside the shape
NoProbeOutsideShape ==
    Invoked =>
      /\ \A p \in probes : InShape(gen, <<p.x, p.y, p.z>>)
      /\ \A i \in DOMAIN QueuedPoints(gen) : i > 1 => InShape(gen, QueuedPoints(gen)[i])
      /\ \A k \in DOMAIN gen.visitedXZ : \A y \in gen.visitedXZ[k] :
            \E i \in DOMAIN QueuedPoints(gen) :
               /\ VisitedKey(QueuedPoints(gen)[i][1], QueuedPoints(gen)[i][3]) = k
               /\ QueuedPoints(gen)[i][2] = y

\* C26 (as claimed): no block query is issued for a dequeued point that fails the shape
\* predicate, such a point records no height and expands no neighbours, and a
\* neighbour that fails the shape predicate is never marked visited or enqueued.
C26_ShapeCheckFirst ==
    /\ []NoProbeOutsideShape
    /\ [][(DequeueStep /\ ~InShape(gen, Dequeued)) =>
            /\ probes' = probes
            /\ chunks' = chunks
            /\ gen'.qTail = gen.qTail
            /\ gen'.visitedXZ = gen.visitedXZ]_vars

\* C26 (corrected): as claimed, except that a dequeued point that fails the shape
\* predicate does expand its neighbours when its cell already has a height and
\* forceRescan is off: that path does not evaluate the shape predicate for the point.
C26_ShapeCheckBeforeProbe ==
    /\ []NoProbeOutsideShape
    /\ [][(DequeueStep /\ ~InShape(gen, Dequeued)) =>
            /\ probes' = probes
            /\ chunks' = chunks
            /\ ~TrustedCell(Dequeued) =>
                  gen'.qTail = gen.qTail /\ gen'.visitedXZ = gen.visitedXZ]_vars

\* the seed of a cube that does not hold it was dequeued with no height in the cache
\* and was dropped: no query, no height, no neighbour
C26_Witness ==
    /\ Invoked
    /\ gen.qHead = 3
    /\ ~InShape(gen, QueuedPoints(gen)[1])
    /\ ~hasHeight(cache0, QueuedPoints(gen)[1][1], QueuedPoints(gen)[1][3])
    /\ InShape(gen, <<QueuedPoints(gen)[1][1] + CELL_SIZE, QueuedPoints(gen)[1][2],
                       QueuedPoints(gen)[1][3]>>)
    /\ probes = {} /\ chunks = cache0 /\ gen.qTail = 3


(***************************************************************************)
(* The origin of the heights of the cache.                                 *)
(***************************************************************************)
\* the 64 blocks of the slab at (x, y, z) all exist and all pass isValidBlock
SlabAllValid(x, y, z) ==
    \A dx, dz \in 0..(CELL_SIZE - 1) : BlockOutcome(world, x + dx, y, z + dz) = "valid"

\* the probe p queried the whole slab of a point inside the shape and found it valid
FullValidProbe(p) ==
    /\ p.isValid
    /\ p.queries = CELL_SIZE * CELL_SIZE
    /\ InShape(gen, <<p.x, p.y, p.z>>)
    /\ SlabAllValid(p.x, p.y, p.z)

\* C27: in every reachable state (at suspensions and in scans that are never resumed)
\* each height of the cache either was in the cache supplied at the invocation or was
\* written for a point that passed the shape predicate and whose 64 slab blocks were
\* all queried successfully and were all valid.
C27_HeightsFromValidSlabs ==
    \A c \in KnownCells(chunks) :
       \/ getHeight(chunks, c[1], c[2]) = getHeight(cache0, c[1], c[2])
       \/ /\ Invoked
          /\ \E p \in probes :
               /\ FullValidProbe(p)
               /\ CellOf(p.x, p.z) = CellOf(c[1], c[2])
               /\ getHeight(chunks, c[1], c[2]) = Some(p.y)

\* a suspended scan in a world with a missing block and a throwing query has written
\* a height while other probes failed
C27_Witness ==
    /\ gen.pc = "suspended"
    /\ \E c \in KnownCells(chunks) : getHeight(chunks, c[1], c[2]) # getHeight(cache0, c[1], c[2])
    /\ \E p \in probes : ~p.isValid


(***************************************************************************)
(* Termination of a scan that is resumed whenever it suspends.             *)
(***************************************************************************)
\* a step of the generator of the current invocation
GeneratorStep == ScanIterate \/ ScanYield \/ ScanResume \/ ScanReturn

\* the one invocation of a caller that scans once
FirstScan(maxIterations) == gen.pc = "idle" /\ ScanStart(maxIterations)

\* next() on the generator after scan returned: no code of scan runs, the caller gets
\* done = true
ScanResumeDone ==
    /\ gen.pc = "done"
    /\ lastOp' = [op |-> "next", done |-> TRUE]
    /\ UNCHANGED <<chunks, written, smp, dbVars, globalScanResults, heap, world, config, gen,
                   tempPos, cache0, probes, sinceSuspend, runs>>

ResumeNext ==
    \/ \E m \in OptionalCeilings : FirstScan(m)
    \/ ScanIterate
    \/ ScanYield
    \/ ScanResume
    \/ ScanReturn
    \/ ScanResumeDone

\* a caller that invokes scan once and calls next() again whenever it can
ResumedSpec == Init /\ [][ResumeNext]_vars /\ WF_vars(ResumeNext)

\* C28: a scan that is resumed whenever it suspends reaches Done (on an empty frontier
\* or on the ceiling), also with the default maxIterations of 10000, far above the
\* number of cells of the shape; once Done the generator has no step left and a
\* further resumption changes nothing in the cache.
C28_ScanTerminates ==
    /\ Running(gen) ~> (gen.pc = "done" /\ CurRun.exit \in {"empty", "ceiling"})
    /\ [](gen.pc = "done" => ~ENABLED GeneratorStep)
    /\ [][gen.pc = "done" => (chunks' = chunks /\ gen' = gen)]_vars

\* a scan with the default ceiling is Done on an empty frontier after it was
\* suspended and resumed, having dequeued far fewer points than the ceiling, and
\* next() was called again
C28_Witness ==
    /\ gen.pc = "done" /\ CurRun.exit = "empty"
    /\ gen.maxIterations = DEFAULT_MAX_ITERATIONS
    /\ gen.yieldInterval = 1
    /\ gen.qHead \div 3 >= 5
    /\ chunks # cache0
    /\ lastOp = [op |-> "next", done |-> TRUE]


(***************************************************************************)
(* The second attempt of getRandomPosition.                                *)
(***************************************************************************)
\* the positions of the known cells of the chunk of key that pass the filter of the call
QualifyingIn(key) ==
    { pos \in { CellPosition(key, AndMask(i, CHUNK_MASK), Shr(i, CHUNK_SHIFT), chunks[key][i]) :
                  i \in { j \in 0..(CHUNK_SIZE * CHUNK_SIZE - 1) : chunks[key][j] # SENTINEL } } :
        PassesFilter(pos) }

\* the squared horizontal distance of pos from the center of the call
CenterDistSq(pos) ==
    (pos.x - TheValue(smp.center).x) * (pos.x - TheValue(smp.center).x)
      + (pos.z - TheValue(smp.center).z) * (pos.z - TheValue(smp.center).z)

\* C29: the fallback runs only when the random phase has used all its samples without
\* a result and both center and minRadius were given; it visits the candidate chunks
\* in descending order of chunk-grid distance from the center's chunk and returns,
\* from the first chunk that has a known cell passing the filter, a cell that no
\* qualifying cell of that chunk exceeds in horizontal distance from center.
C29_FallbackFarthestFirst ==
    /\ (smp.pc = "fallback" \/ (smp.pc = "returned" /\ smp.phase = "fallback")) =>
          /\ smp.center # Undefined /\ smp.minRadius # Undefined
          /\ smp.attempt = MAX_ATTEMPTS - 1 /\ smp.i = SAMPLES_PER_ATTEMPT - 1
    /\ (smp.pc = "returned" /\ smp.phase = "fallback") =>
          /\ \A i, j \in DOMAIN smp.keys :
                i < j => ChunkDistance(smp.keys[i], TheValue(smp.center))
                           >= ChunkDistance(smp.keys[j], TheValue(smp.center))
          /\ \E k \in DOMAIN smp.keys :
                /\ TheValue(smp.pos) \in QualifyingIn(smp.keys[k])
                /\ \A j \in 1..(k - 1) : QualifyingIn(smp.keys[j]) = {}
                /\ \A q \in QualifyingIn(smp.keys[k]) :
                      CenterDistSq(q) <= CenterDistSq(TheValue(smp.pos))

\* the fallback went past the farthest chunk, where no known cell passes the filter,
\* and returned a cell of a nearer chunk
C29_Witness ==
    /\ smp.pc = "returned" /\ smp.phase = "fallback"
    /\ Len(smp.keys) = 2
    /\ ChunkDistance(smp.keys[1], TheValue(smp.center))
          > ChunkDistance(smp.keys[2], TheValue(smp.center))
    /\ QualifyingIn(smp.keys[1]) = {}
    /\ TheValue(smp.pos) \in QualifyingIn(smp.keys[2])


(***************************************************************************)
(* The chunk prefilter of getRandomPosition.                               *)
(***************************************************************************)
\* the keys of the chunks that hold a known cell within horizontal distance
\* maxRadius of the center of the call
ChunksInReach ==
    { key \in DOMAIN chunks :
        \E i \in 0..(CHUNK_SIZE * CHUNK_SIZE - 1) :
           /\ chunks[key][i] # SENTINEL
           /\ ~ExceedsSquare(CenterDistSq(CellPosition(key, AndMask(i, CHUNK_MASK),
                                                       Shr(i, CHUNK_SHIFT), chunks[key][i])),
                             TheValue(smp.maxRadius)) }

\* the keys the call kept as candidates
KeptKeys == { smp.keys[k] : k \in DOMAIN smp.keys }

\* C30 (as claimed): for an integer center and a positive maxRadius the prefilter keeps
\* every chunk that contains a known cell whose position lies within horizontal
\* distance maxRadius of center.
C30_PrefilterKeepsReach ==
    (/\ smp.pc # "idle"
     /\ smp.center # Undefined /\ smp.maxRadius # Undefined
     /\ TheValue(smp.maxRadius) > 0)
    => ChunksInReach \subseteq KeptKeys


(***************************************************************************)
(* Strings of the database package. A string is a sequence of runs         *)
(* <<c, n>>: n >= 1 copies of the character c, adjacent runs having         *)
(* different characters, so that strings longer than a dynamic property    *)
(* are values of the model.                                                *)
(***************************************************************************)
\* s.length
RECURSIVE StringLength(_)
StringLength(s) == IF s = <<>> THEN 0 ELSE s[1][2] + StringLength(Tail(s))

\* s + t (a and b are the values of the operands, each evaluated once)
Concat(s, t) ==
    CHOOSE joined \in
        { IF a = <<>> THEN b
          ELSE IF b = <<>> THEN a
          ELSE IF a[Len(a)][1] = b[1][1]
          THEN SubSeq(a, 1, Len(a) - 1) \o << <<b[1][1], a[Len(a)][2] + b[1][2]>> >> \o Tail(b)
          ELSE a \o b : a \in {s}, b \in {t} } : TRUE

\* the string of a sequence of one-character strings
RECURSIVE FromChars(_)
FromChars(cs) ==
    IF cs = <<>> THEN <<>> ELSE Concat(<< <<cs[1], 1>> >>, FromChars(Tail(cs)))

\* the string of n copies of the character c
Repeat(c, n) == IF n = 0 THEN <<>> ELSE << <<c, n>> >>

\* s without its first k characters, and the first k characters of s
RECURSIVE Drop(_, _)
Drop(s, k) ==
    IF k <= 0 \/ s = <<>> THEN s
    ELSE IF s[1][2] <= k THEN Drop(Tail(s), k - s[1][2])
    ELSE << <<s[1][1], s[1][2] - k>> >> \o Tail(s)

RECURSIVE Take(_, _)
Take(s, k) ==
    IF k <= 0 \/ s = <<>> THEN <<>>
    ELSE IF s[1][2] <= k THEN <<s[1]>> \o Take(Tail(s), k - s[1][2])
    ELSE << <<s[1][1], k>> >>

\* s.slice(start, end) for 0 <= start <= end
slice(s, start, end) == Take(Drop(s, start), end - start)

(***************************************************************************)
(* JSON. A value is a number, a string, an array or an object whose        *)
(* members are <<key, value>> pairs in insertion order.                    *)
(***************************************************************************)
Num(n) == [t |-> "num", n |-> n]
Str(s) == [t |-> "str", s |-> s]
Arr(items) == [t |-> "arr", items |-> items]
Obj(members) == [t |-> "obj", members |-> members]

Quote == FromChars(<<"\"">>)

\* JSON.stringify(v)
RECURSIVE stringify(_)
RECURSIVE StringifyItems(_, _)
RECURSIVE StringifyMembers(_, _)
stringify(v) ==
    CASE v.t = "num" -> FromChars(NumberToString(v.n))
      [] v.t = "str" -> Concat(Concat(Quote, v.s), Quote)
      [] v.t = "arr" ->
           Concat(Concat(FromChars(<<"[">>), StringifyItems(v.items, 1)), FromChars(<<"]">>))
      [] v.t = "obj" ->
           Concat(Concat(FromChars(<<"{">>), StringifyMembers(v.members, 1)), FromChars(<<"}">>))

StringifyItems(items, i) ==
    IF i > Len(items) THEN <<>>
    ELSE Concat(Concat(IF i > 1 THEN FromChars(<<",">>) ELSE <<>>, stringify(items[i])),
                StringifyItems(items, i + 1))

StringifyMembers(members, i) ==
    IF i > Len(members) THEN <<>>
    ELSE Concat(Concat(Concat(IF i > 1 THEN FromChars(<<",">>) ELSE <<>>,
                              Concat(Concat(Quote, members[i][1]), Quote)),
                       Concat(FromChars(<<":">>), stringify(members[i][2]))),
                StringifyMembers(members, i + 1))

\* the characters that end a run of string content or stand alone in JSON text
Structural == {"[", "]", "{", "}", ",", ":", "\""}

\* the text as a sequence of tokens: every structural character and every digit on
\* its own, every other run whole
RECURSIVE Tokens(_)
Tokens(s) ==
    CHOOSE tokens \in
        { IF a = <<>> THEN <<>>
          ELSE IF (a[1][1] \in Structural \/ IsDigit(a[1][1])) /\ a[1][2] > 1
          THEN << <<a[1][1], 1>> >> \o Tokens(<< <<a[1][1], a[1][2] - 1>> >> \o Tail(a))
          ELSE <<a[1]>> \o Tokens(Tail(a)) : a \in {s} } : TRUE

\* the character of token i, "" past the end
CharAt(t, i) == IF i <= Len(t) THEN t[i][1] ELSE ""

\* the string of a sequence of tokens
RECURSIVE FromTokens(_)
FromTokens(t) == IF t = <<>> THEN <<>> ELSE Concat(<<t[1]>>, FromTokens(Tail(t)))

\* a SyntaxError
ParseError == [ok |-> FALSE]

\* a string literal that begins at token i (a quote): its content and the token
\* after the closing quote
ParseString(t, i) ==
    LET closing == { j \in (i + 1)..Len(t) : t[j][1] = "\"" }
        j == CHOOSE k \in closing : \A m \in closing : k <= m
    IN IF closing = {} THEN ParseError
       ELSE [ok |-> TRUE, v |-> Str(FromTokens(SubSeq(t, i + 1, j - 1))), next |-> j + 1]

\* a number that begins at token i (a digit)
ParseNumber(t, i) ==
    LET after == { j \in i..(Len(t) + 1) : ~IsDigit(CharAt(t, j)) }
        j == CHOOSE k \in after : \A m \in after : k <= m
    IN [ok |-> TRUE, v |-> Num(ParseDigits([k \in 1..(j - i) |-> t[i + k - 1][1]], 0)),
        next |-> j]

\* the value that begins at token i
RECURSIVE ParseValue(_, _)
RECURSIVE ParseItems(_, _, _)
RECURSIVE ParseMembers(_, _, _)
ParseValue(t, i) ==
    CASE CharAt(t, i) = "\"" -> ParseString(t, i)
      [] IsDigit(CharAt(t, i)) -> ParseNumber(t, i)
      [] CharAt(t, i) = "[" ->
           IF CharAt(t, i + 1) = "]" THEN [ok |-> TRUE, v |-> Arr(<<>>), next |-> i + 2]
           ELSE ParseItems(t, i + 1, <<>>)
      [] CharAt(t, i) = "{" ->
           IF CharAt(t, i + 1) = "}" THEN [ok |-> TRUE, v |-> Obj(<<>>), next |-> i + 2]
           ELSE ParseMembers(t, i + 1, <<>>)
      [] OTHER -> ParseError

ParseItems(t, i, acc) ==
    CHOOSE parsed \in
        { IF ~r.ok THEN ParseError
          ELSE IF CharAt(t, r.next) = "," THEN ParseItems(t, r.next + 1, Append(items, r.v))
          ELSE IF CharAt(t, r.next) = "]"
          THEN [ok |-> TRUE, v |-> Arr(Append(items, r.v)), next |-> r.next + 1]
          ELSE ParseError : r \in { ParseValue(t, i) }, items \in { acc } } : TRUE

ParseMembers(t, i, acc) ==
    CHOOSE parsed \in
        { CHOOSE member \in
            { IF ~r.ok THEN ParseError
              ELSE IF CharAt(t, r.next) = ","
              THEN ParseMembers(t, r.next + 1, Append(members, <<k.v.s, r.v>>))
              ELSE IF CharAt(t, r.next) = "}"
              THEN [ok |-> TRUE, v |-> Obj(Append(members, <<k.v.s, r.v>>)),
                    next |-> r.next + 1]
              ELSE ParseError :
              r \in { IF k.ok /\ CharAt(t, k.next) = ":" THEN ParseValue(t, k.next + 1)
                      ELSE ParseError } } : TRUE :
          k \in { IF CharAt(t, i) = "\"" THEN ParseString(t, i) ELSE ParseError },
          members \in { acc } } : TRUE

\* JSON.parse(s): the value, or a SyntaxError when s is not one JSON text
parse(s) ==
    CHOOSE parsed \in
        { CHOOSE whole \in
            { IF r.ok /\ r.next = Len(t) + 1 THEN [ok |-> TRUE, v |-> r.v] ELSE ParseError :
              r \in { ParseValue(t, 1) } } : TRUE :
          t \in { Tokens(s) } } : TRUE


(***************************************************************************)
(* config.ts: the namespace of the package.                                *)
(***************************************************************************)
\* the arguments a caller passes for a namespace: strings, and values that are no
\* string
StringArg(s) == [type |-> "string", s |-> s]
NumberArg(n) == [type |-> "number", n |-> n]
UndefinedArg == [type |-> "undefined"]

\* !value
Falsy(arg) ==
    \/ arg.type = "undefined"
    \/ arg.type = "string" /\ arg.s = <<>>
    \/ arg.type = "number" /\ arg.n = 0

\* a mutant of setNamespace: the argument is stored without the check
setNamespaceUnchecked(current, arg) ==
    [threw |-> FALSE, namespace |-> IF arg.type = "string" THEN arg.s ELSE <<>>]

\* setNamespace(namespace) with _namespace = current: whether it threw, and _namespace
\* after the call
setNamespace(current, arg) ==
    IF Falsy(arg) \/ arg.type # "string"
    THEN [threw |-> TRUE, namespace |-> current]
    ELSE [threw |-> FALSE, namespace |-> arg.s]

\* getNamespace()
getNamespace == _namespace

\* getNamespace as database.ts imports it from "../constants": the function of
\* config.ts
ImportedGetNamespace == getNamespace

(***************************************************************************)
(* DatabaseManager.                                                        *)
(***************************************************************************)
DYNAMIC_PROP_MAX_LENGTH == 32767
CHUNK_KEY == FromChars(<<"_", "_", "S", "P", "L", "I", "T", "_", "_">>)

\* target.getDynamicProperty(name) and target.setDynamicProperty(name, value) on the
\* properties p; setting undefined removes the property
getDynamicProperty(p, name) == IF name \in DOMAIN p THEN Some(p[name]) ELSE Undefined
setDynamicProperty(p, name, value) ==
    CHOOSE after \in
        { IF v = Undefined THEN [k \in (DOMAIN q) \ {name} |-> q[k]]
          ELSE [k \in (DOMAIN q) \cup {name} |-> IF k = name THEN TheValue(v) ELSE q[k]] :
          q \in {p}, v \in {value} } : TRUE

\* `${this.namespace}:${databaseName}` and `${propertyName}_${i}`
PropertyName(namespace, databaseName) == namespace \o <<":">> \o databaseName
PartName(propertyName, i) == propertyName \o <<"_">> \o NumberToString(i)

\* propObj && typeof propObj === "object" && CHUNK_KEY in propObj, for the result r
\* of JSON.parse
IsChunkMeta(r) ==
    r.ok /\ r.v.t = "obj" /\ \E m \in DOMAIN r.v.members : r.v.members[m][1] = CHUNK_KEY

\* propObj[CHUNK_KEY] as the bound of the loops over the parts (a value that is no
\* number is not among the values stored here)
ChunkCount(obj) ==
    LET m == CHOOSE k \in DOMAIN obj.members :
               /\ obj.members[k][1] = CHUNK_KEY
               /\ \A j \in DOMAIN obj.members : obj.members[j][1] = CHUNK_KEY => j <= k
    IN IF obj.members[m][2].t = "num" THEN obj.members[m][2].n ELSE 0

\* the loops that set the parts 0..n-1 of propertyName to undefined
DeleteParts(p, propertyName, n) ==
    CHOOSE after \in
        { [k \in (DOMAIN q) \ { PartName(propertyName, i) : i \in 0..(n - 1) } |-> q[k]] :
          q \in {p} } : TRUE

\* existingChunks of addJSONDatabase
ExistingChunks(p, propertyName) ==
    LET existingProp == getDynamicProperty(p, propertyName)
    IN IF existingProp = Undefined \/ TheValue(existingProp) = <<>> THEN 0
       ELSE CHOOSE n \in { IF IsChunkMeta(propObj) THEN ChunkCount(propObj.v) ELSE 0 :
                           propObj \in { parse(TheValue(existingProp)) } } : TRUE

\* the loop that writes the parts i..chunkCount-1 of jsonString
RECURSIVE WriteParts(_, _, _, _, _)
WriteParts(p, propertyName, jsonString, i, chunkCount) ==
    IF i >= chunkCount THEN p
    ELSE WriteParts(setDynamicProperty(p, PartName(propertyName, i),
                        Some(slice(jsonString, i * DYNAMIC_PROP_MAX_LENGTH,
                                   i * DYNAMIC_PROP_MAX_LENGTH + DYNAMIC_PROP_MAX_LENGTH))),
                    propertyName, jsonString, i + 1, chunkCount)

\* addJSONDatabase(databaseName, database) of a manager with this namespace: the
\* properties after the call
addJSONDatabase(p, namespace, databaseName, database) ==
    LET propertyName == PropertyName(namespace, databaseName)
    IN CHOOSE after \in
         { LET length == StringLength(jsonString)
               chunkCount ==
                   (length + DYNAMIC_PROP_MAX_LENGTH - 1) \div DYNAMIC_PROP_MAX_LENGTH
           IN IF length <= DYNAMIC_PROP_MAX_LENGTH \/ length = 0
              THEN setDynamicProperty(cleaned, propertyName, Some(jsonString))
              ELSE setDynamicProperty(
                       WriteParts(cleaned, propertyName, jsonString, 0, chunkCount),
                       propertyName,
                       Some(stringify(Obj(<< <<CHUNK_KEY, Num(chunkCount)>> >>)))) :
           jsonString \in { stringify(database) },
           cleaned \in { IF ExistingChunks(p, propertyName) > 0
                         THEN DeleteParts(p, propertyName, ExistingChunks(p, propertyName))
                         ELSE p } } : TRUE

\* a mutant of removeJSONDatabase: the parts of a split database are left
removeJSONDatabaseKeepParts(p, namespace, databaseName) ==
    setDynamicProperty(p, PropertyName(namespace, databaseName), Undefined)

\* removeJSONDatabase(databaseName)
removeJSONDatabase(p, namespace, databaseName) ==
    LET propertyName == PropertyName(namespace, databaseName)
        propString == getDynamicProperty(p, propertyName)
    IN IF propString = Undefined THEN p
       ELSE CHOOSE after \in
              { setDynamicProperty(IF IsChunkMeta(r)
                                   THEN DeleteParts(p, propertyName, ChunkCount(r.v))
                                   ELSE p,
                                   propertyName, Undefined) :
                r \in { parse(TheValue(propString)) } } : TRUE

\* hasJSONDatabase(databaseName)
hasJSONDatabase(p, namespace, databaseName) ==
    getDynamicProperty(p, PropertyName(namespace, databaseName)) # Undefined

\* the loop of getJSONDatabase that joins the parts i..chunkCount-1; a part that is
\* no string adds nothing
RECURSIVE Combined(_, _, _, _)
Combined(p, propertyName, i, chunkCount) ==
    IF i >= chunkCount THEN <<>>
    ELSE Concat(IF getDynamicProperty(p, PartName(propertyName, i)) # Undefined
                THEN p[PartName(propertyName, i)] ELSE <<>>,
                Combined(p, propertyName, i + 1, chunkCount))

\* what a call that throws gives its caller
Throws(message) == [threw |-> TRUE, message |-> message]
Returns(value) == [threw |-> FALSE, value |-> value]

\* getJSONDatabase(databaseName)
getJSONDatabase(p, namespace, databaseName) ==
    CHOOSE outcome \in
      { LET propertyName == PropertyName(namespace, databaseName)
            propString == getDynamicProperty(q, propertyName)
        IN IF propString = Undefined THEN Throws("Database does not exist")
           ELSE CHOOSE parsed \in
                  { CHOOSE joined \in
                      { IF ~r.ok \/ ~whole.ok THEN Throws("Failed to parse database JSON")
                        ELSE Returns(whole.v) :
                        whole \in { IF IsChunkMeta(r)
                                    THEN parse(Combined(q, propertyName, 0, ChunkCount(r.v)))
                                    ELSE r } } : TRUE :
                    r \in { parse(TheValue(propString)) } } : TRUE :
        q \in {p} } : TRUE


(***************************************************************************)
(* The database specification: a caller sets the namespace, constructs     *)
(* DatabaseManagers on the world and calls their methods.                  *)
(***************************************************************************)
DatabaseNames == { <<"d", "b">> }
OtherNamespace == <<"n", "s">>

\* the arguments of setNamespace, and the namespace argument of the constructor
NamespaceInputs ==
    { StringArg(OtherNamespace), StringArg(DefaultNamespace), StringArg(<<>>), NumberArg(5),
      UndefinedArg }
ConstructorNamespaces == { Undefined, Some(<<>>), Some(OtherNamespace) }

\* the databases stored: an empty array; an object with the key __SPLIT__; arrays
\* whose text has 32767, 32768 and 70004 characters
DatabaseValues ==
    { Arr(<<>>),
      Obj(<< <<CHUNK_KEY, Num(1)>> >>),
      Arr(<<Str(Repeat("a", 32763))>>),
      Arr(<<Str(Repeat("a", 32764))>>),
      Arr(<<Str(Repeat("a", 70000))>>) }

nonDbVars ==
    <<chunks, written, smp, globalScanResults, heap, world, config, gen, tempPos, cache0,
      probes, sinceSuspend, runs, machine, events>>

DatabaseInit ==
    /\ chunks = NoChunks
    /\ written = {}
    /\ lastOp = NoOp
    /\ smp = NoCall
    /\ globalScanResults = NoResults
    /\ heap = NoObjects
    /\ DatabaseIdle
    /\ world = AllValid
    /\ config = NoConfig
    /\ gen = NoFrame
    /\ tempPos = Vec(0, 0, 0)
    /\ cache0 = NoChunks
    /\ probes = {}
    /\ sinceSuspend = 0
    /\ runs = <<>>

\* setNamespace(arg)
SetNamespace(arg) ==
    /\ \E r \in { setNamespace(_namespace, arg) } :
          /\ _namespace' = r.namespace
          /\ lastOp' = [op |-> "setNamespace", argument |-> arg, threw |-> r.threw,
                        before |-> _namespace]
    /\ UNCHANGED <<dynamicProperties, manager, simple>>
    /\ UNCHANGED nonDbVars

\* getNamespace()
GetNamespace ==
    /\ lastOp' = [op |-> "getNamespace", result |-> getNamespace]
    /\ UNCHANGED dbVars
    /\ UNCHANGED nonDbVars

\* new DatabaseManager(undefined, namespace): the target is the world
NewDatabaseManager(namespace) ==
    /\ manager' = [constructed |-> TRUE,
                   namespace |-> IF namespace # Undefined /\ TheValue(namespace) # <<>>
                                 THEN TheValue(namespace) ELSE ImportedGetNamespace,
                   explicit |-> namespace # Undefined]
    /\ lastOp' = [op |-> "new DatabaseManager"]
    /\ UNCHANGED <<dynamicProperties, _namespace, simple>>
    /\ UNCHANGED nonDbVars

\* manager.addJSONDatabase(databaseName, database)
AddJSONDatabase(databaseName, database) ==
    /\ manager.constructed
    /\ dynamicProperties' =
         addJSONDatabase(dynamicProperties, manager.namespace, databaseName, database)
    /\ lastOp' = [op |-> "addJSONDatabase", databaseName |-> databaseName,
                  namespace |-> manager.namespace, database |-> database]
    /\ UNCHANGED <<_namespace, manager, simple>>
    /\ UNCHANGED nonDbVars

\* manager.removeJSONDatabase(databaseName)
RemoveJSONDatabase(databaseName) ==
    /\ manager.constructed
    /\ dynamicProperties' = removeJSONDatabase(dynamicProperties, manager.namespace, databaseName)
    /\ lastOp' = [op |-> "removeJSONDatabase", databaseName |-> databaseName,
                  namespace |-> manager.namespace, before |-> DOMAIN dynamicProperties]
    /\ UNCHANGED <<_namespace, manager, simple>>
    /\ UNCHANGED nonDbVars

\* manager.getJSONDatabase(databaseName); previous is the call before it
GetJSONDatabase(databaseName) ==
    /\ manager.constructed
    /\ lastOp' = [op |-> "getJSONDatabase", databaseName |-> databaseName,
                  namespace |-> manager.namespace,
                  outcome |-> getJSONDatabase(dynamicProperties, manager.namespace, databaseName),
                  previous |-> IF lastOp.op = "addJSONDatabase" THEN lastOp
                               ELSE [op |-> lastOp.op]]
    /\ UNCHANGED dbVars
    /\ UNCHANGED nonDbVars

\* manager.hasJSONDatabase(databaseName)
HasJSONDatabase(databaseName) ==
    /\ manager.constructed
    /\ lastOp' = [op |-> "hasJSONDatabase", databaseName |-> databaseName,
                  namespace |-> manager.namespace,
                  result |-> hasJSONDatabase(dynamicProperties, manager.namespace, databaseName)]
    /\ UNCHANGED dbVars
    /\ UNCHANGED nonDbVars

DatabaseNext ==
    \/ \E arg \in NamespaceInputs : SetNamespace(arg)
    \/ GetNamespace
    \/ \E namespace \in ConstructorNamespaces : NewDatabaseManager(namespace)
    \/ \E name \in DatabaseNames, v \in DatabaseValues : AddJSONDatabase(name, v)
    \/ \E name \in DatabaseNames : RemoveJSONDatabase(name)
    \/ \E name \in DatabaseNames : GetJSONDatabase(name)
    \/ \E name \in DatabaseNames : HasJSONDatabase(name)

DatabaseSpec == DatabaseInit /\ [][DatabaseNext]_vars

InvalidSet ==
    /\ lastOp.op = "setNamespace"
    /\ (lastOp.argument.type # "string" \/ lastOp.argument.s = <<>>)
\* a call of setNamespace that returned
SuccessfulSet == lastOp.op = "setNamespace" /\ ~lastOp.threw

\* C24: setNamespace with an empty or non-string value throws and leaves the
\* namespace unchanged; after a successful setNamespace(n) the namespace is n,
\* getNamespace() returns the current namespace and only a successful set changes
\* it; a DatabaseManager constructed without an explicit namespace takes the
\* current namespace n, and what it adds is stored under the key "n:<databaseName>".
C24_Namespace ==
    /\ [](InvalidSet => lastOp.threw /\ _namespace = lastOp.before)
    /\ [](SuccessfulSet => lastOp.argument.type = "string" /\ _namespace = lastOp.argument.s)
    /\ [](lastOp.op = "getNamespace" => lastOp.result = _namespace)
    /\ [][_namespace' # _namespace => lastOp'.op = "setNamespace" /\ ~lastOp'.threw]_vars
    /\ [][(lastOp'.op = "new DatabaseManager" /\ ~manager'.explicit)
            => manager'.namespace = _namespace]_vars
    /\ [][lastOp'.op = "addJSONDatabase"
            => /\ lastOp'.namespace = manager.namespace
               /\ lastOp'.namespace \o <<":">> \o lastOp'.databaseName
                    \in DOMAIN dynamicProperties']_vars

\* a manager constructed without a namespace after setNamespace("ns") has stored a
\* database under "ns:db"
C24_Witness ==
    /\ lastOp.op = "addJSONDatabase"
    /\ _namespace = OtherNamespace
    /\ manager.constructed /\ ~manager.explicit
    /\ manager.namespace = OtherNamespace
    /\ <<"n", "s", ":", "d", "b">> \in DOMAIN dynamicProperties


(***************************************************************************)
(* SimpleDatabase: an array of objects with ids, kept in one JSON database. *)
(***************************************************************************)
MaxObjects == 2

IdKey == FromChars(<<"i", "d">>)

\* object.id: undefined when the object has no such member
Id(object) ==
    LET ks == { m \in DOMAIN object.members : object.members[m][1] = IdKey }
    IN IF ks = {} THEN Undefined
       ELSE Some(object.members[CHOOSE m \in ks : \A k \in ks : k <= m][2])

\* getMainDB(): the stored array, [] when getJSONDatabase throws
getMainDB(p, namespace, databaseName) ==
    CHOOSE data \in { IF r.threw THEN Arr(<<>>) ELSE r.value :
                      r \in { getJSONDatabase(p, namespace, databaseName) } } : TRUE

\* updateMainDB(data)
updateMainDB(p, namespace, databaseName, data) ==
    addJSONDatabase(p, namespace, databaseName, data)

\* the constructor after new DatabaseManager: the properties after it
SimpleDatabaseConstructor(p, namespace, databaseName) ==
    IF ~hasJSONDatabase(p, namespace, databaseName)
    THEN addJSONDatabase(p, namespace, databaseName, Arr(<<>>))
    ELSE p

\* addObject(object): the properties after it
addObject(p, namespace, databaseName, object) ==
    LET currentData == getMainDB(p, namespace, databaseName)
    IN updateMainDB(p, namespace, databaseName, Arr(Append(currentData.items, object)))

\* hasObject(id)
hasObject(p, namespace, databaseName, id) ==
    \E currentData \in { getMainDB(p, namespace, databaseName) } :
        \E i \in DOMAIN currentData.items : Id(currentData.items[i]) = Some(id)

\* getObject(id): the first object with the id, undefined when there is none
getObject(p, namespace, databaseName, id) ==
    LET currentData == getMainDB(p, namespace, databaseName)
        HasId(object) == Id(object) = Some(id)
    IN CHOOSE result \in { IF found = <<>> THEN Undefined ELSE Some(found[1]) :
                           found \in { SelectSeq(currentData.items, HasId) } } : TRUE

\* removeObject(id): the properties after it
removeObject(p, namespace, databaseName, id) ==
    LET currentData == getMainDB(p, namespace, databaseName)
        OtherId(object) == Id(object) # Some(id)
    IN updateMainDB(p, namespace, databaseName, Arr(SelectSeq(currentData.items, OtherId)))

\* a mutant of updateObject: the object is added without removing the old one
updateObjectNoRemove(p, namespace, databaseName, object) ==
    addObject(p, namespace, databaseName, object)

\* updateObject(object): the properties after it
updateObject(p, namespace, databaseName, object) ==
    CHOOSE after \in
        { addObject(q, namespace, databaseName, object) :
          q \in { IF hasObject(p, namespace, databaseName, TheValue(Id(object)))
                  THEN removeObject(p, namespace, databaseName, TheValue(Id(object)))
                  ELSE p } } : TRUE

\* getAllObjects()
getAllObjects(p, namespace, databaseName) == getMainDB(p, namespace, databaseName).items

\* eraseAllObjects(): the properties after it
eraseAllObjects(p, namespace, databaseName) ==
    updateMainDB(p, namespace, databaseName, Arr(<<>>))

\* the objects stored: two with the id "a", two with the id "b", one of them too
\* long for one dynamic property
SimpleObjects ==
    { Obj(<< <<IdKey, Str(FromChars(<<"a">>))>>, <<FromChars(<<"n">>), Num(1)>> >>),
      Obj(<< <<IdKey, Str(FromChars(<<"a">>))>>, <<FromChars(<<"n">>), Num(2)>> >>),
      Obj(<< <<IdKey, Str(FromChars(<<"b">>))>>, <<FromChars(<<"n">>), Num(1)>> >>),
      Obj(<< <<IdKey, Str(FromChars(<<"b">>))>>,
             <<FromChars(<<"s">>), Str(Repeat("x", 40000))>> >>) }

SimpleIds == { Str(FromChars(<<"a">>)), Str(FromChars(<<"b">>)), Str(FromChars(<<"c">>)) }

SimpleNamespaces == { Undefined, Some(<<>>) }

\* the array of the constructed SimpleDatabase
Stored == getAllObjects(dynamicProperties, simple.namespace, simple.databaseName)

\* new SimpleDatabase(databaseName, undefined, namespace)
NewSimpleDatabase(databaseName, namespace) ==
    /\ \E ns \in { IF namespace # Undefined /\ TheValue(namespace) # <<>>
                   THEN TheValue(namespace) ELSE ImportedGetNamespace } :
          /\ simple' = [constructed |-> TRUE, namespace |-> ns, databaseName |-> databaseName]
          /\ dynamicProperties' = SimpleDatabaseConstructor(dynamicProperties, ns, databaseName)
    /\ lastOp' = [op |-> "new SimpleDatabase"]
    /\ UNCHANGED <<_namespace, manager>>
    /\ UNCHANGED nonDbVars

\* db.addObject(object)
AddObject(object) ==
    /\ simple.constructed
    /\ Len(Stored) < MaxObjects
    /\ dynamicProperties' =
         addObject(dynamicProperties, simple.namespace, simple.databaseName, object)
    /\ lastOp' = [op |-> "addObject", object |-> object]
    /\ UNCHANGED <<_namespace, manager, simple>>
    /\ UNCHANGED nonDbVars

\* db.updateObject(object); before is the array before the call
UpdateObject(object) ==
    /\ simple.constructed
    /\ \/ Len(Stored) < MaxObjects
       \/ hasObject(dynamicProperties, simple.namespace, simple.databaseName,
                    TheValue(Id(object)))
    /\ dynamicProperties' =
         updateObject(dynamicProperties, simple.namespace, simple.databaseName, object)
    /\ lastOp' = [op |-> "updateObject", object |-> object, before |-> Stored]
    /\ UNCHANGED <<_namespace, manager, simple>>
    /\ UNCHANGED nonDbVars

\* db.removeObject(id)
RemoveObject(id) ==
    /\ simple.constructed
    /\ dynamicProperties' =
         removeObject(dynamicProperties, simple.namespace, simple.databaseName, id)
    /\ lastOp' = [op |-> "removeObject", id |-> id]
    /\ UNCHANGED <<_namespace, manager, simple>>
    /\ UNCHANGED nonDbVars

\* db.hasObject(id)
HasObject(id) ==
    /\ simple.constructed
    /\ lastOp' = [op |-> "hasObject", id |-> id,
                  result |-> hasObject(dynamicProperties, simple.namespace,
                                       simple.databaseName, id)]
    /\ UNCHANGED dbVars
    /\ UNCHANGED nonDbVars

\* db.getObject(id)
GetObject(id) ==
    /\ simple.constructed
    /\ lastOp' = [op |-> "getObject", id |-> id,
                  result |-> getObject(dynamicProperties, simple.namespace,
                                       simple.databaseName, id)]
    /\ UNCHANGED dbVars
    /\ UNCHANGED nonDbVars

\* db.getAllObjects()
GetAllObjects ==
    /\ simple.constructed
    /\ lastOp' = [op |-> "getAllObjects", result |-> Stored]
    /\ UNCHANGED dbVars
    /\ UNCHANGED nonDbVars

\* db.eraseAllObjects()
EraseAllObjects ==
    /\ simple.constructed
    /\ dynamicProperties' =
         eraseAllObjects(dynamicProperties, simple.namespace, simple.databaseName)
    /\ lastOp' = [op |-> "eraseAllObjects"]
    /\ UNCHANGED <<_namespace, manager, simple>>
    /\ UNCHANGED nonDbVars

SimpleNext ==
    \/ \E name \in DatabaseNames, namespace \in SimpleNamespaces :
          NewSimpleDatabase(name, namespace)
    \/ \E object \in SimpleObjects : AddObject(object)
    \/ \E object \in SimpleObjects : UpdateObject(object)
    \/ \E id \in SimpleIds : RemoveObject(id)
    \/ \E id \in SimpleIds : HasObject(id)
    \/ \E id \in SimpleIds : GetObject(id)
    \/ GetAllObjects
    \/ EraseAllObjects

SimpleSpec == DatabaseInit /\ [][SimpleNext]_vars

\* the objects of an array whose id is not the id of o, in their order
Others(items, o) ==
    LET OtherId(object) == Id(object) # Id(o)
    IN SelectSeq(items, OtherId)

\* C23: after updateObject(o), getObject(o.id) returns o and exactly one stored
\* object has the id of o, whether or not an object with that id was stored before;
\* the objects with other ids are the same as before the call, in the same order.
C23_UpdateObject ==
    lastOp.op = "updateObject" =>
        /\ getObject(dynamicProperties, simple.namespace, simple.databaseName,
                     TheValue(Id(lastOp.object))) = Some(lastOp.object)
        /\ Cardinality({ i \in DOMAIN Stored : Id(Stored[i]) = Id(lastOp.object) }) = 1
        /\ Others(Stored, lastOp.object) = Others(lastOp.before, lastOp.object)

\* updateObject replaced two objects with the id of o and kept nothing else; and
\* updateObject replaced one next to an object with another id
C23_Witness ==
    /\ lastOp.op = "updateObject"
    /\ Len(lastOp.before) = MaxObjects
    /\ Others(lastOp.before, lastOp.object) # <<>>
    /\ Others(lastOp.before, lastOp.object) # lastOp.before
    /\ lastOp.object \notin { lastOp.before[i] : i \in DOMAIN lastOp.before }


(***************************************************************************)
(* The storage slot of a cell.                                             *)
(***************************************************************************)
\* the chunk and the index within it that updateHeight and getHeight use for (x, z)
Slot(x, z) == <<KeyOf(x, z), IndexOf(x, z)>>

\* coordinates at the edges of cells, on both sides of 0 and of the chunk boundaries
\* at -128 and 128
SlotCoordinates == {-129, -128, -121, -9, -8, -1, 0, 7, 8, 120, 127, 128}
SlotDepths == {-129, -128, -1, 0, 8, 127, 128}

\* coordinates around the cells written by the cache specification
FrameWindow == {-16, -9, -8, -1, 0, 7, 8, 15}

\* C31: updateHeight(x, z, y) changes the result of getHeight(x', z') only for
\* coordinates of the same 8x8 cell, negative coordinates and cells on either side of
\* a chunk boundary included; two distinct cells never share a storage slot (a
\* statement about KeyOf and IndexOf alone, evaluated before the first call).
C31_WriteStaysInCell ==
    /\ [](lastOp = NoOp =>
             \A x1 \in SlotCoordinates, z1 \in SlotDepths,
                x2 \in SlotCoordinates, z2 \in SlotDepths :
                Slot(x1, z1) = Slot(x2, z2) <=> CellOf(x1, z1) = CellOf(x2, z2))
    /\ [][lastOp'.op = "updateHeight" =>
            \A x \in FrameWindow, z \in FrameWindow :
               getHeight(chunks', x, z) # getHeight(chunks, x, z)
                  => CellOf(x, z) = CellOf(lastOp'.x, lastOp'.z)]_vars

\* C31 witness: the cell left of the chunk boundary at 0 was raised from 3 to 5 while
\* its neighbour across the boundary holds 0
C31_Witness ==
    /\ lastOp.op = "updateHeight" /\ lastOp.x = -1 /\ lastOp.before = Some(3)
    /\ getHeight(chunks, -8, 0) = Some(5)
    /\ getHeight(chunks, 0, 0) = Some(0)
    /\ getHeight(chunks, -9, 0) = Undefined


(***************************************************************************)
(* The frontier buffer of scan as an Int32Array: queue maps the indices    *)
(* 0..queueCapacity-1 to 32-bit integers.  A caller pushes the points of a *)
(* fixed stream and dequeues them as the loop of scan does.                *)
(***************************************************************************)
MaxPushes == 6          \* the points pushed after the initial ones
MaxShifts == 6          \* the points dequeued after the initial ones

\* new Int32Array(n)
NewInt32Array(n) == [i \in 0..(n - 1) |-> 0]

\* newQueue.set(queue): the entries of queue copied to the start of newQueue
SetFrom(newQueue, queue) ==
    [i \in DOMAIN newQueue |-> IF i \in DOMAIN queue THEN queue[i] ELSE newQueue[i]]

\* a mutant of pushToQueueArray: the grown buffer is not filled from the old one
pushToQueueArrayNoCopy(f, x, y, z) ==
    CHOOSE after \in
        { [g EXCEPT !.queue = [@ EXCEPT ![f.qTail] = x, ![f.qTail + 1] = y, ![f.qTail + 2] = z],
                    !.qTail = @ + 3] :
          g \in { IF f.qTail + 3 >= f.queueCapacity
                  THEN [f EXCEPT !.queue = NewInt32Array(f.queueCapacity * 2),
                                 !.queueCapacity = @ * 2]
                  ELSE f } } : TRUE

\* pushToQueue(x, y, z) on the buffer fields of the frame f (g is the frame after
\* the growth, if any)
pushToQueueArray(f, x, y, z) ==
    CHOOSE after \in
        { [g EXCEPT !.queue = [@ EXCEPT ![f.qTail] = x, ![f.qTail + 1] = y, ![f.qTail + 2] = z],
                    !.qTail = @ + 3] :
          g \in { IF f.qTail + 3 >= f.queueCapacity
                  THEN [f EXCEPT !.queue = SetFrom(NewInt32Array(f.queueCapacity * 2), @),
                                 !.queueCapacity = @ * 2]
                  ELSE f } } : TRUE

\* the i-th point of the stream (i = 0, 1, ...): cells east and west of the origin at
\* five levels
StreamPoint(i) == Vec(CELL_SIZE * ((i % 7) - 3) * (i + 1), (i % 5) - 2, -CELL_SIZE * i)

\* the buffer fields of the frame after new Int32Array(queueCapacity)
EmptyQueue ==
    [pc |-> "queue", queueCapacity |-> INITIAL_QUEUE_CAPACITY,
     queue |-> NewInt32Array(INITIAL_QUEUE_CAPACITY), qHead |-> 0, qTail |-> 0]

\* the frame after pushToQueue of the points lo..hi of the stream, in order
RECURSIVE PushStream(_, _, _)
PushStream(f, lo, hi) ==
    IF lo > hi THEN f
    ELSE IF lo = hi
    THEN pushToQueueArray(f, StreamPoint(lo).x, StreamPoint(lo).y, StreamPoint(lo).z)
    ELSE CHOOSE after \in
           { PushStream(g, (lo + hi) \div 2 + 1, hi) :
             g \in { PushStream(f, lo, (lo + hi) \div 2) } } : TRUE

\* cx = queue[qHead++]; cy = queue[qHead++]; cz = queue[qHead++]: the frame after
\* it and the point read
DequeuePoint(f) ==
    [frame |-> [f EXCEPT !.qHead = @ + 3],
     point |-> Vec(f.queue[f.qHead], f.queue[f.qHead + 1], f.queue[f.qHead + 2])]

\* the frame after n dequeues
RECURSIVE DequeueStream(_, _)
DequeueStream(f, n) ==
    IF n = 0 THEN f
    ELSE CHOOSE after \in
           { DequeueStream(g, n - 1) : g \in { DequeuePoint(f).frame } } : TRUE

\* the points pushed and dequeued before the caller is observed: none; the buffer
\* four points from its first growth, with none or three of them dequeued (runs keeps
\* the pair for the bounds of Push and Shift)
QueueFills ==
    { <<0, 0>>, <<INITIAL_QUEUE_CAPACITY \div 3 - 4, 0>>,
      <<INITIAL_QUEUE_CAPACITY \div 3 - 4, 3>> }

QueueInit ==
    /\ chunks = NoChunks
    /\ written = {}
    /\ lastOp = NoOp
    /\ smp = NoCall
    /\ globalScanResults = NoResults
    /\ heap = NoObjects
    /\ DatabaseIdle
    /\ world = AllValid
    /\ config = NoConfig
    /\ \E fill \in QueueFills :
          /\ gen = DequeueStream(PushStream(EmptyQueue, 0, fill[1] - 1), fill[2])
          /\ runs = <<fill>>
    /\ tempPos = Vec(0, 0, 0)
    /\ cache0 = NoChunks
    /\ probes = {}
    /\ sinceSuspend = 0

queueVars ==
    <<chunks, written, smp, dbVars, globalScanResults, heap, world, config, tempPos, cache0,
      probes, sinceSuspend, runs>>

\* pushToQueue(x, y, z) with the next point of the stream
Push ==
    /\ gen.qTail \div 3 < runs[1][1] + MaxPushes
    /\ \E pt \in { StreamPoint(gen.qTail \div 3) } :
          /\ gen' = pushToQueueArray(gen, pt.x, pt.y, pt.z)
          /\ lastOp' = [op |-> "push", point |-> pt, capacityBefore |-> gen.queueCapacity]
    /\ UNCHANGED queueVars

\* a loop pass dequeues a point (the loop condition is qHead < qTail)
Shift ==
    /\ gen.qHead < gen.qTail
    /\ gen.qHead \div 3 < runs[1][2] + MaxShifts
    /\ \E r \in { DequeuePoint(gen) } :
          /\ gen' = r.frame
          /\ lastOp' = [op |-> "shift", index |-> gen.qHead \div 3, point |-> r.point,
                        capacity |-> gen.queueCapacity]
    /\ UNCHANGED queueVars

QueueNext == Push \/ Shift

QueueSpec == QueueInit /\ [][QueueNext]_vars

\* the point held by the buffer at place i (0 for the first point pushed)
BufferPoint(i) == Vec(gen.queue[3 * i], gen.queue[3 * i + 1], gen.queue[3 * i + 2])

\* C32: queue overflow is never surfaced and loses nothing: whenever the buffer grows,
\* every point enqueued and not yet dequeued is still dequeued later, in the original
\* order and with unchanged coordinates, for any number of enqueues.  The points
\* pending are in the buffer at their places, the buffer has room for them, and the
\* i-th dequeue returns the i-th point pushed.
C32_GrowthKeepsPending ==
    /\ gen.qTail <= gen.queueCapacity
    /\ DOMAIN gen.queue = 0..(gen.queueCapacity - 1)
    /\ \A i \in (gen.qHead \div 3)..(gen.qTail \div 3 - 1) : BufferPoint(i) = StreamPoint(i)
    /\ lastOp.op = "shift" => lastOp.point = StreamPoint(lastOp.index)

\* C32 witness: the buffer has grown and a point pushed before the growth has been
\* dequeued after it
C32_Witness ==
    /\ lastOp.op = "shift"
    /\ lastOp.capacity > INITIAL_QUEUE_CAPACITY
    /\ 3 * lastOp.index + 3 < INITIAL_QUEUE_CAPACITY - 3
    /\ lastOp.point = StreamPoint(lastOp.index)


(***************************************************************************)
(* The parts of a split database.                                          *)
(***************************************************************************)
\* the namespaces of the managers and the indices of the parts looked at (the
\* longest database stored has three parts)
ManagerNamespaces == { DefaultNamespace, OtherNamespace }
PartIndices == 0..3

\* the main property of the database holds split metadata with a count above i
SplitAbove(namespace, databaseName, i) ==
    LET main == getDynamicProperty(dynamicProperties, PropertyName(namespace, databaseName))
    IN /\ main # Undefined
       /\ \E r \in { parse(TheValue(main)) } : IsChunkMeta(r) /\ ChunkCount(r.v) > i

\* C33: after any sequence of addJSONDatabase and removeJSONDatabase calls on one
\* database name no stale part remains: a part "<name>_i" exists only if the main
\* property holds split metadata with a count greater than i, and after
\* removeJSONDatabase neither the main property nor any part exists, hasJSONDatabase
\* is false and getJSONDatabase throws "Database does not exist".
C33_NoStalePart ==
    /\ \A namespace \in ManagerNamespaces, name \in DatabaseNames, i \in PartIndices :
          PartName(PropertyName(namespace, name), i) \in DOMAIN dynamicProperties
             => SplitAbove(namespace, name, i)
    /\ lastOp.op = "removeJSONDatabase" =>
          /\ PropertyName(lastOp.namespace, lastOp.databaseName) \notin DOMAIN dynamicProperties
          /\ \A i \in PartIndices :
                PartName(PropertyName(lastOp.namespace, lastOp.databaseName), i)
                   \notin DOMAIN dynamicProperties
          /\ ~hasJSONDatabase(dynamicProperties, lastOp.namespace, lastOp.databaseName)
          /\ getJSONDatabase(dynamicProperties, lastOp.namespace, lastOp.databaseName)
                = Throws("Database does not exist")

\* C33 witness: a database split into three parts was removed and nothing is left
C33_Witness ==
    /\ lastOp.op = "removeJSONDatabase"
    /\ PartName(PropertyName(lastOp.namespace, lastOp.databaseName), 2) \in lastOp.before
    /\ DOMAIN dynamicProperties = {}


(***************************************************************************)
(* The seed and the grid of the enqueued points.                           *)
(***************************************************************************)
\* v is the greatest multiple of the cell size that is not above c
SnappedDown(v, c) == v % CELL_SIZE = 0 /\ v <= c /\ c < v + CELL_SIZE

\* C34: the seed is the center snapped down to the 8-block grid horizontally and is
\* marked visited before the loop starts; every point ever enqueued in the invocation
\* has x and z that are multiples of 8 and the y of the seed, and every enqueued
\* point other than the seed satisfies the shape predicate.
C34_SeedAndGrid ==
    Invoked =>
       LET queued == QueuedPoints(gen)
           seed == queued[1]
       IN /\ gen.qTail >= 3
          /\ SnappedDown(seed[1], config.center.x)
          /\ SnappedDown(seed[3], config.center.z)
          /\ isVisited(gen.visitedXZ, seed[1], seed[2], seed[3])
          /\ \A i \in DOMAIN queued :
                /\ queued[i][1] % CELL_SIZE = 0
                /\ queued[i][3] % CELL_SIZE = 0
                /\ queued[i][2] = seed[2]
                /\ i > 1 => InShape(gen, queued[i])

\* C34 witness: a scan around (5, 2, -3) was seeded at (0, 2, -8) and has enqueued
\* neighbours of the seed
C34_Witness ==
    /\ Invoked
    /\ config.center = OffGrid
    /\ QueuedPoints(gen)[1] = <<0, 2, -8>>
    /\ gen.qTail \div 3 >= 3


(***************************************************************************)
(* The positions returned by getRandomPosition.                            *)
(***************************************************************************)
\* C35: every position returned by getRandomPosition, by the random sampling or by
\* the second attempt, is a cell known to the cache: its x and z are multiples of 8
\* (the first block of the cell), its y is getHeight(x, z), and it passes the filter
\* of the caller when there is one.
C35_ReturnedIsKnownCell ==
    (smp.pc = "returned" /\ smp.pos # Undefined) =>
        LET pos == TheValue(smp.pos)
        IN /\ smp.phase \in {"random", "fallback"}
           /\ pos.x % CELL_SIZE = 0 /\ pos.z % CELL_SIZE = 0
           /\ <<pos.x, pos.z>> \in KnownCells(chunks)
           /\ hasHeight(chunks, pos.x, pos.z)
           /\ pos.y = TheValue(getHeight(chunks, pos.x, pos.z))
           /\ PassesFilter(pos)

\* C35 witness: the second attempt of a call with a filter returned a cell that is
\* not the first one written, at a height that is not positive
C35_Witness ==
    /\ smp.pc = "returned" /\ smp.phase = "fallback"
    /\ smp.filter # Undefined
    /\ smp.pos # Undefined
    /\ TheValue(smp.pos).y <= 0
    /\ TheValue(smp.pos).x > 0


(***************************************************************************)
(* Two cadences compared: the caller runs scan to its end, then runs it    *)
(* again with the same configuration but for yieldInterval, on a copy of   *)
(* the same initial cache in the same world.  lastOp keeps what the first  *)
(* scan returned and the points it dequeued.                               *)
(***************************************************************************)
\* the second scan: the same config with the yieldInterval yi, the initial cache again
CadenceSwitch(yi) ==
    /\ gen.pc = "done"
    /\ Len(runs) = 1
    /\ lastOp' = [op |-> "scan", result |-> chunks, dequeued |-> DequeuedPoints,
                  yieldInterval |-> gen.yieldInterval]
    /\ config' = [config EXCEPT !.yieldInterval = yi]
    /\ chunks' = cache0
    /\ gen' = StartFrame(config')
    /\ probes' = {}
    /\ sinceSuspend' = 0
    /\ runs' = Append(runs, [maxIterations |-> config.maxIterations, exit |-> "none",
                             dequeued |-> 0])
    /\ UNCHANGED <<written, smp, dbVars, globalScanResults, heap, world, tempPos, cache0>>

CadenceNext ==
    \/ \E m \in OptionalCeilings : TwinStart(m)
    \/ ScanIterate
    \/ ScanYield
    \/ ScanResume
    \/ ScanReturn
    \/ \E yi \in OptionalYields : CadenceSwitch(yi)

CadenceSpec == Init /\ [][CadenceNext]_vars

\* C36: with the block predicate a function of the block and no other writer to the
\* cache, two scans of the same configuration on the same initial cache that differ
\* only in yieldInterval (and so in where the caller resumes them) end with the same
\* cache and dequeue the same points in the same order.
C36_CadenceIndependent ==
    (BothDone /\ "dequeued" \in DOMAIN lastOp) =>
        /\ lastOp.result = chunks
        /\ lastOp.dequeued = DequeuedPoints
        /\ PrevRun.exit = CurRun.exit

\* C36 witness: a scan that yields before every point and a scan that never yields
\* have both stopped on the ceiling after recording cells
C36_Witness ==
    /\ BothDone /\ "dequeued" \in DOMAIN lastOp
    /\ lastOp.yieldInterval = 0
    /\ gen.yieldInterval = DEFAULT_YIELD_INTERVAL
    /\ CurRun.exit = "ceiling"
    /\ Len(DequeuedPoints) >= 3
    /\ chunks # cache0


(***************************************************************************)
(* Two scan computations of one scanner: the caller creates two generators *)
(* from the same BFSScanner, each with its own config and ScanResult, and  *)
(* resumes them in any order.  The variables of the scan specification are *)
(* those of the computation that runs; smp keeps the other one.  tempPos   *)
(* is the scanner's and is shared.  lastOp keeps tempPos as it was when    *)
(* the caller last turned to the other computation.                        *)
(***************************************************************************)
\* a computation that is not running: its generator, config and ScanResult
Parked(g, c, ch, c0, ps, ss, rs) ==
    [pc |-> "parked", gen |-> g, config |-> c, chunks |-> ch, cache0 |-> c0, probes |-> ps,
     sinceSuspend |-> ss, runs |-> rs]

\* the configs of the two computations: a cube at the origin and a sphere or a cube
\* around a center at another level, both yielding before every point or every other
PairConfigs ==
    { <<[center |-> Origin, shape |-> "cube", geometryDimensions |-> Vec(8, 0, 8),
         maxIterations |-> Undefined, forceRescan |-> Undefined, yieldInterval |-> Some(ya)],
        [center |-> OffGrid, shape |-> sb, geometryDimensions |-> Vec(8, 0, 8),
         maxIterations |-> Undefined, forceRescan |-> Some(TRUE), yieldInterval |-> Some(yb)]>> :
        ya \in 0..MaxYield, yb \in 0..MaxYield, sb \in {"cube", "sphere"} }

PairWorlds == { AllValid, WorldOf({<<9, 2, "invalid">>}) }

PairInit ==
    /\ chunks = NoChunks
    /\ written = {}
    /\ lastOp = NoOp
    /\ globalScanResults = NoResults
    /\ heap = NoObjects
    /\ DatabaseIdle
    /\ world \in PairWorlds
    /\ \E cs \in PairConfigs, ch \in InitialCaches :
         /\ config = cs[1]
         /\ smp = Parked(NoFrame, cs[2], ch, ch, {}, 0, <<>>)
    /\ gen = NoFrame
    /\ tempPos = Vec(0, 0, 0)
    /\ cache0 = chunks
    /\ probes = {}
    /\ sinceSuspend = 0
    /\ runs = <<>>

\* the caller turns to the other generator; the one that ran is not started, suspended
\* at its yield, or done
Switch ==
    /\ gen.pc \in {"idle", "suspended", "done"}
    /\ smp' = Parked(gen, config, chunks, cache0, probes, sinceSuspend, runs)
    /\ gen' = smp.gen
    /\ config' = smp.config
    /\ chunks' = smp.chunks
    /\ cache0' = smp.cache0
    /\ probes' = smp.probes
    /\ sinceSuspend' = smp.sinceSuspend
    /\ runs' = smp.runs
    /\ lastOp' = [op |-> "switch", tempPos |-> tempPos]
    /\ UNCHANGED <<written, dbVars, globalScanResults, heap, world, tempPos>>

PairNext ==
    \/ \E m \in {Some(MaxCeiling + 1), Undefined} : TwinStart(m)
    \/ ScanIterate
    \/ ScanYield
    \/ ScanResume
    \/ ScanReturn
    \/ Switch

PairSpec == PairInit /\ [][PairNext]_vars

\* the point the running computation dequeues in its next loop pass
NextPoint == [x |-> gen.queue[gen.qHead + 1], y |-> gen.queue[gen.qHead + 2],
              z |-> gen.queue[gen.qHead + 3]]

\* a loop pass of the running computation that queries blocks
QueryingPass ==
    /\ gen.pc \in {"loop", "suspended"} /\ gen'.pc = "loop" /\ gen'.qHead = gen.qHead + 3
    /\ probes' # probes

\* C38: when two scan computations of one scanner are resumed in any interleaving,
\* switching only where a generator is suspended, every block query of a loop pass
\* targets (cx + dx, cy, cz + dz) with 0 <= dx, dz < 8 for the point (cx, cy, cz) that
\* the pass dequeued, whatever the other computation left in the shared tempPos.
C38_QueriesOwnCell ==
    [][QueryingPass =>
         \A p \in probes' \ probes :
            /\ <<p.x, p.y, p.z>> = <<NextPoint.x, NextPoint.y, NextPoint.z>>
            /\ \A t \in { QueryTargets(tempPos, p.x, p.y, p.z, p.queries)[i] :
                            i \in 1..p.queries } :
                 /\ t.y = p.y
                 /\ (t.x - p.x) \in 0..(CELL_SIZE - 1)
                 /\ (t.z - p.z) \in 0..(CELL_SIZE - 1)
            /\ tempPos' = QueryTargets(tempPos, p.x, p.y, p.z, p.queries)[p.queries]
            /\ tempPos'.y = p.y]_vars

\* C38 witness: the running computation has queried the slab of its first point after
\* the other one, suspended at another level, had queried slabs of its own and left
\* its coordinates in tempPos
C38_Witness ==
    /\ gen.pc = "loop" /\ gen.qHead = 3
    /\ Cardinality(probes) = 1
    /\ smp.pc = "parked" /\ smp.gen.pc = "suspended"
    /\ smp.probes # {}
    /\ lastOp.op = "switch"
    /\ lastOp.tempPos.y = smp.gen.center.y
    /\ lastOp.tempPos.y # gen.center.y
    /\ tempPos.y = gen.center.y


(***************************************************************************)
(* A truncated scan continued: the caller runs scan until it stops on the  *)
(* ceiling, invokes it again on the returned cache with forceRescan false  *)
(* and the default ceiling, and then runs the first scan again with the    *)
(* default ceiling on a copy of the initial cache.  lastOp keeps the       *)
(* initial cache, the forceRescan and the cache of the truncated scan, and *)
(* the cache of its continuation.                                          *)
(***************************************************************************)
\* scan(dimension, {...config, forceRescan: false}, result) after a scan that stopped
\* on the ceiling, with maxIterations left to the default
Reinvoke ==
    /\ gen.pc = "done"
    /\ lastOp = NoOp
    /\ CurRun.exit = "ceiling"
    /\ lastOp' = [op |-> "reinvoked", initial |-> cache0, partial |-> chunks,
                  forceRescan |-> config.forceRescan]
    /\ config' = [config EXCEPT !.forceRescan = Some(FALSE), !.maxIterations = Undefined]
    /\ gen' = StartFrame(config')
    /\ cache0' = chunks
    /\ probes' = {}
    /\ sinceSuspend' = 0
    /\ runs' = LastRuns(Append(runs, [maxIterations |-> Undefined, exit |-> "none",
                                      dequeued |-> 0]))
    /\ UNCHANGED <<chunks, written, smp, dbVars, globalScanResults, heap, world, tempPos>>

\* the single scan: the config of the truncated scan but for the ceiling, on a copy
\* of the initial cache
SingleScan ==
    /\ gen.pc = "done"
    /\ lastOp.op = "reinvoked"
    /\ lastOp' = [op |-> "continued", initial |-> lastOp.initial, partial |-> lastOp.partial,
                  forceRescan |-> lastOp.forceRescan, result |-> chunks, exit |-> CurRun.exit]
    /\ chunks' = lastOp.initial
    /\ config' = [config EXCEPT !.forceRescan = lastOp.forceRescan]
    /\ gen' = StartFrame(config')
    /\ cache0' = lastOp.initial
    /\ probes' = {}
    /\ sinceSuspend' = 0
    /\ runs' = LastRuns(Append(runs, [maxIterations |-> Undefined, exit |-> "none",
                                      dequeued |-> 0]))
    /\ UNCHANGED <<written, smp, dbVars, globalScanResults, heap, world, tempPos>>

ContinuedNext ==
    \/ \E m \in OptionalCeilings : TwinStart(m)
    \/ ScanIterate
    \/ ScanYield
    \/ ScanResume
    \/ ScanReturn
    \/ Reinvoke
    \/ SingleScan

ContinuedSpec == Init /\ [][ContinuedNext]_vars

\* the single scan has returned after the truncated scan and its continuation
AllDone == gen.pc = "done" /\ lastOp.op = "continued"

\* C37 (as claimed): with the block predicate a function of the block, a scan that
\* stopped on the iteration ceiling followed by one re-invocation with the same center
\* and shape, the partial cache as existingCache, forceRescan = false and a budget that
\* empties the frontier ends with exactly the cache of the single uninterrupted scan
\* with such a budget on the same initial cache.
C37_ContinuationEqualsSingleScan ==
    AllDone => lastOp.result = chunks

\* C37 (amended): the same, for a truncated scan that ran with forceRescan = false as
\* well; both the continuation and the single scan empty the frontier.
C37_UnforcedContinuationEqualsSingleScan ==
    (AllDone /\ ~OrDefault(lastOp.forceRescan, FALSE)) =>
        /\ lastOp.exit = "empty" /\ CurRun.exit = "empty"
        /\ lastOp.result = chunks

\* C37 witness: the truncated scan, not forced, recorded cells on a cache that was not
\* empty in a world with failing blocks, its continuation recorded more, and the
\* single scan has returned
C37_Witness ==
    /\ AllDone
    /\ ~OrDefault(lastOp.forceRescan, FALSE)
    /\ lastOp.initial # NoChunks
    /\ lastOp.partial # lastOp.initial
    /\ lastOp.result # lastOp.partial
    /\ world # AllValid


(***************************************************************************)
(* The level state machine: one active branch whose levels are in order,   *)
(* the PlayerDatabase, and the PlayerManager that brings each player's     *)
(* recorded level to the active level of the branch on every tick.         *)
(***************************************************************************)
LevelCount == 3         \* the levels of the branch
MaxTicks == 3           \* the ticks counted since the active level changed
PlayerIds == {"p1", "p2"}

\* the identifier of a branch and of its level i, in the order of branch.getLevels()
MainBranch == "mainBranch"
LevelId(i) == <<"mainLevel", i>>

\* Level.levelIndex of the level with the identifier, which is its position in
\* branch.getLevels(); -1 when findIndex finds no such level
LevelIndex(identifier) ==
    IF \E i \in 0..(LevelCount - 1) : LevelId(i) = identifier
    THEN CHOOSE i \in 0..(LevelCount - 1) : LevelId(i) = identifier
    ELSE -1

\* playerState
SETUP_PLAYER == "setupPlayer"
EXIT_PLAYER == "exitPlayer"

\* eventTrigger.triggerPlayerLeaveLevel(player) and triggerPlayerJoinLevel(player) of
\* the level i: the event the listeners of the level receive
LeaveLevel(id, i) == [player |-> id, event |-> "leave", level |-> LevelId(i)]
JoinLevel(id, i) == [player |-> id, event |-> "join", level |-> LevelId(i)]

\* playerDatabase.hasObject(id), getObject(id) and updateObject(object) on the array
\* of the database
HasPlayer(objects, id) == \E k \in DOMAIN objects : objects[k].id = id
PlayerObject(objects, id) == objects[CHOOSE k \in DOMAIN objects : objects[k].id = id]
UpdatePlayer(objects, object) ==
    LET OtherId(o) == o.id # object.id
    IN Append(SelectSeq(objects, OtherId), object)

\* registerNewPlayer(player): the array of the database after it
registerNewPlayer(objects, id) ==
    IF ~HasPlayer(objects, id)
    THEN Append(objects, [id |-> id, branch |-> MainBranch, playerLevel |-> LevelId(0),
                          playerState |-> SETUP_PLAYER])
    ELSE objects

\* the loop of updatePlayerState over the levels from i up to currentIndex: the events
\* triggered
RECURSIVE LevelSteps(_, _, _)
LevelSteps(id, i, currentIndex) ==
    IF i >= currentIndex THEN <<>>
    ELSE <<LeaveLevel(id, i), JoinLevel(id, i + 1)>> \o LevelSteps(id, i + 1, currentIndex)

\* updatePlayerState(currentLevel, player, playerObject, branch) for the level at
\* currentIndex: the object passed to playerDatabase.updateObject and the events
\* triggered, in order
updatePlayerState(currentIndex, playerObject) ==
    LET id == playerObject.id
        playerIndex == LevelIndex(playerObject.playerLevel)
    IN IF playerObject.playerLevel = LevelId(currentIndex)
          /\ playerObject.playerState = SETUP_PLAYER
       THEN [object |-> [playerObject EXCEPT !.playerState = EXIT_PLAYER],
             triggered |-> <<JoinLevel(id, currentIndex)>>]
       ELSE IF playerObject.playerLevel # LevelId(currentIndex)
       THEN [object |-> [playerObject EXCEPT !.playerState = SETUP_PLAYER,
                                             !.playerLevel = LevelId(currentIndex)],
             triggered |->
                IF currentIndex > playerIndex THEN LevelSteps(id, playerIndex, currentIndex)
                ELSE IF currentIndex < playerIndex
                THEN <<LeaveLevel(id, playerIndex), JoinLevel(id, currentIndex)>>
                ELSE <<LeaveLevel(id, currentIndex)>>]
       ELSE [object |-> playerObject, triggered |-> <<>>]

\* PlayerManager.tick for the objects of getAllObjects() from k on: the array of the
\* database and the events triggered after them (acc has both so far)
RECURSIVE TickPlayers(_, _, _, _, _)
TickPlayers(all, k, players, currentIndex, acc) ==
    IF k > Len(all) THEN acc
    ELSE IF all[k].branch # MainBranch \/ all[k].id \notin players
    THEN TickPlayers(all, k + 1, players, currentIndex, acc)
    ELSE CHOOSE r \in
           { TickPlayers(all, k + 1, players, currentIndex,
                         [objects |-> UpdatePlayer(acc.objects, u.object),
                          triggered |-> acc.triggered \o u.triggered]) :
               u \in { updatePlayerState(currentIndex, all[k]) } } : TRUE

\* PlayerManager.tick(activeBranches)
tick(objects, players, currentIndex) ==
    TickPlayers(objects, 1, players, currentIndex, [objects |-> objects, triggered |-> <<>>])

\* the players online whose recorded level is the level at index i
OnlineAtLevel(m, i) ==
    { id \in m.players : HasPlayer(m.objects, id)
                         /\ PlayerObject(m.objects, id).playerLevel = LevelId(i) }

\* the state machine constructed, its branch active at its first level, nobody online
LevelInit ==
    /\ chunks = NoChunks
    /\ written = {}
    /\ lastOp = NoOp
    /\ smp = NoCall
    /\ globalScanResults = NoResults
    /\ heap = NoObjects
    /\ dynamicProperties = NoProperties
    /\ _namespace = DefaultNamespace
    /\ manager = NoManager
    /\ simple = NoDatabase
    /\ machine = [constructed |-> TRUE, active |-> 0, objects |-> <<>>, players |-> {}]
    /\ events = [log |-> <<>>, from |-> 0, to |-> 0, ticks |-> 0, synced |-> {}]
    /\ world = AllValid
    /\ config = NoConfig
    /\ gen = NoFrame
    /\ tempPos = Vec(0, 0, 0)
    /\ cache0 = NoChunks
    /\ probes = {}
    /\ sinceSuspend = 0
    /\ runs = <<>>

levelVars ==
    <<chunks, written, lastOp, smp, globalScanResults, heap, world, config, gen, tempPos, cache0,
      probes, sinceSuspend, runs, dynamicProperties, _namespace, manager, simple>>

\* playerSpawn with initialSpawn: onPlayerJoinServer(player, branches), the branch of
\* the player being active with an active level
OnPlayerJoinServer(id) ==
    /\ id \notin machine.players
    /\ \E registered \in { registerNewPlayer(machine.objects, id) } :
       \E u \in { updatePlayerState(machine.active, PlayerObject(registered, id)) } :
          /\ machine' = [machine EXCEPT
                           !.players = @ \cup {id},
                           !.objects = UpdatePlayer(UpdatePlayer(registered, u.object),
                                                    u.object)]
          /\ events' = [events EXCEPT !.log = @ \o u.triggered]
    /\ UNCHANGED levelVars

\* playerLeave: onPlayerLeaveServer(player, branches)
OnPlayerLeaveServer(id) ==
    /\ id \in machine.players
    /\ machine' = [machine EXCEPT !.players = @ \ {id}]
    /\ events' = [events EXCEPT !.synced = @ \ {id}]
    /\ UNCHANGED levelVars

\* the tick handler of the state machine: branch.tick(), which moves the branch to
\* its next level when advance is true, then playersManager.tick(activeBranches)
OnTick(advance) ==
    /\ advance => machine.active < LevelCount - 1
    /\ \E currentIndex \in { IF advance THEN machine.active + 1 ELSE machine.active } :
       \E r \in { tick(machine.objects, machine.players, currentIndex) } :
          /\ machine' = [machine EXCEPT !.active = currentIndex, !.objects = r.objects]
          /\ events' =
               IF advance
               THEN [log |-> r.triggered, from |-> machine.active, to |-> currentIndex,
                     ticks |-> 1, synced |-> OnlineAtLevel(machine, machine.active)]
               ELSE [events EXCEPT !.log = @ \o r.triggered,
                                   !.ticks = IF @ < MaxTicks THEN @ + 1 ELSE @]
    /\ UNCHANGED levelVars

\* the script event JUMP_EVENT: branch.jumpToLevel(event.message) on the active branch
JumpToLevel(i) ==
    /\ i # machine.active
    /\ machine' = [machine EXCEPT !.active = i]
    /\ events' = [log |-> <<>>, from |-> machine.active, to |-> i, ticks |-> 0,
                  synced |-> OnlineAtLevel(machine, machine.active)]
    /\ UNCHANGED levelVars

LevelNext ==
    \/ \E id \in PlayerIds : OnPlayerJoinServer(id)
    \/ \E id \in PlayerIds : OnPlayerLeaveServer(id)
    \/ \E advance \in BOOLEAN : OnTick(advance)
    \/ \E i \in 0..(LevelCount - 1) : JumpToLevel(i)

LevelSpec == LevelInit /\ [][LevelNext]_vars

\* the events of the kind at the level i that the player received since the active
\* level changed
Received(id, kind, i) ==
    Cardinality({ k \in DOMAIN events.log :
                    events.log[k] = [player |-> id, event |-> kind, level |-> LevelId(i)] })

\* C39 (as claimed): when the active level of a branch advances from the recorded
\* level of a player to the next level and then stays fixed, over the following ticks
\* the player receives the leave event of the old level exactly once and the join
\* event of the new level exactly once, and ends with its recorded level equal to the
\* active level.
C39_OneLeaveOneJoin ==
    \A id \in events.synced :
        (events.to = events.from + 1 /\ events.ticks >= 2) =>
            /\ Received(id, "leave", events.from) = 1
            /\ Received(id, "join", events.to) = 1
            /\ PlayerObject(machine.objects, id).playerLevel = LevelId(machine.active)

====
